---- MODULE Spec2Model ----
(***************************************************************************)
(* Model of the bridge relayer's proposal state machine                    *)
(* (src/src/events_watcher/bridge_watcher.rs): the bridge command handler  *)
(* create_proposal, the ProposalEvent handlers remove_proposal and         *)
(* execute_proposal, the store tables they write (proposals, tx queue),    *)
(* and the destination bridge contract whose proposal status and events    *)
(* they read; and of the deposit handler of the anchor watcher             *)
(* (src/src/events_watcher/anchor_oracle_watcher.rs), which signals each   *)
(* linked anchor of a deposit.                                             *)
(***************************************************************************)
EXTENDS Integers, Sequences, FiniteSets, Bags, TLC

VARIABLES
    proposals,    \* store table: data_hash -> ProposalEntity
    queue,        \* store tx queue: bag of [chain_id, key, tx] entries
    onchain,      \* destination bridge: data_hash -> status byte of get_proposal
    events,       \* ProposalEvent logs the destination bridge has emitted
    blockNumber,  \* destination chain height
    lastRoot,     \* source anchor: the latest merkle root it has reported
    voteIntents,  \* history: data_hash -> number of Vote txs enqueued so far
    handled,      \* history: Passed/Executed/Cancelled events whose handler returned Ok
    last,         \* history: the last handler call, when it was a replay (a command
                  \* skipped by create_proposal, a final event handled again), a
                  \* vote for an Active proposal or an execution skipped on status
    config,       \* anchor watcher: linked anchors, configured chains, smart updates
    next_index,   \* destination anchors: chain name -> next_index()
    leaves,       \* store leaf cache: [key, index, commitment] records
    last_deposit_block, \* store: (chain_id, anchor address) -> block number
    oracle,       \* the deposit handler's run: where it is and what it has done
    sent,         \* calls the deposit handler made on destination bridges
    resource_ids, \* (address, chain_id) -> what encode_resource_id made of it
    decoded,      \* ResourceId -> what decode_resource_id made of it
    evmLog,       \* source anchor (EVM): the Deposit events it has emitted
    subLog,       \* source chain (Substrate): the Transaction events of one tree
    scan,         \* leaf watchers: events of each log handled in this pass
    runs,         \* history: what each finished scan from a fresh store ended with
    head,         \* chain of the watched bridge: its block number
    poll,         \* ProposalWatcher: where it is, its `block`, what it has fetched
    shutdown,     \* the shutdown signal, its broadcast and the tasks it stops
    ignite,       \* light-client service: the eth2 chains, the environment and
                  \* what ignite has started and returned
    inflight,     \* create_proposal calls suspended after their get_proposal
    relay         \* handle_substrate_anchor_relay_tx: where it is, what it has sent

bridgeVars == <<proposals, queue, onchain, events, blockNumber, lastRoot,
                voteIntents, handled, last>>

codecVars == <<resource_ids, decoded>>

leafVars == <<evmLog, subLog, scan>>

pollVars == <<head, poll>>

serviceVars == <<shutdown, ignite, inflight, relay>>

signalVars == <<config, next_index, leaves, last_deposit_block, oracle, sent,
                codecVars, leafVars, runs, pollVars, serviceVars>>

vars == <<bridgeVars, signalVars>>

----------------------------------------------------------------------------
(* Bounds of the model *)

MaxRoot == 2          \* merkle roots the source anchor reports: 1..MaxRoot, in order
MaxBlock == 3         \* the destination chain produces blocks 0..MaxBlock, one for
                      \* each transaction of the bridge
MaxIntents == 2       \* Vote txs enqueued for one deposit are counted up to here
MaxRetries == 2       \* smart_anchor_updates_retries is drawn from 0..MaxRetries
MaxChainBlocks == 2   \* blocks with deposits each source chain produces
MaxRuns == 2          \* scans from a fresh store that one behaviour compares
MaxHead == 3          \* the watched bridge's chain produces blocks up to here
MaxFetches == 3       \* event queries of one connection of the proposal watcher
MaxFailures == 2      \* calls of the deposit handler that fail before its RPCs recover
MaxElapsed == 2       \* backoff delays of the proposal watcher are counted up to here
MaxChains == 2        \* eth2 chains of the light-client service's configuration
MaxStatuses == 3      \* items the relay handler takes from the transaction's status stream
MaxInflight == 2      \* create_proposal calls suspended at the same time
MaxEncoded == 2       \* pairs given to encode_resource_id in one behaviour
MaxNextIndex == 3     \* next_index() of a destination anchor stays in 0..MaxNextIndex

----------------------------------------------------------------------------
(* ProposalStatus and its conversion from the contract's status byte *)

Inactive == 0
Active == 1
Passed == 2
Executed == 3
Cancelled == 4
Unknown == 255

ProposalStatusFrom(v) ==
    IF v \in {Inactive, Active, Passed, Executed, Cancelled} THEN v ELSE Unknown

----------------------------------------------------------------------------
(* The deployment: one destination bridge the watcher is attached to *)

\* A U256 is kept as its part above the low 32 bits and its low 32 bits.
U256(hi, lo) == [hi |-> hi, lo |-> lo]

\* U256::from of a u32 or u64 value of the model.
U256From(n) == U256(0, n)

DestChainId == U256From(100)
SrcChainIds == {U256From(5)}
AnchorAddress == "anchor"
DestHandler == "handler"
OtherHandler == "other_handler"
FunctionSig == "update_edge"

LeafIndices == {7}
Roots == 1..MaxRoot

\* The bridge's registry resource_id -> handler address.
resource_id_to_handler_address(r_id) == DestHandler

----------------------------------------------------------------------------
(* Byte strings are sequences of fields, each with its length in bytes *)

Field(n, v) == [len |-> n, val |-> v]

RECURSIVE BytesLen(_)
BytesLen(bytes) ==
    IF bytes = <<>> THEN 0 ELSE Head(bytes).len + BytesLen(Tail(bytes))

\* U256::as_u32 panics ("Integer overflow when casting to u32") on a value
\* that does not fit 32 bits, and returns the low 32 bits of one that does.
as_u32_panics_Never(v) == FALSE

as_u32_panics(v) == v.hi # 0

as_u32(v) == v.lo

to_be_bytes_LittleEndian(n) ==
    << n % 256, (n \div 256) % 256, (n \div 65536) % 256, n \div 16777216 >>

\* u32::to_be_bytes: the four bytes of n, the most significant first.
to_be_bytes(n) ==
    << n \div 16777216, (n \div 65536) % 256, (n \div 256) % 256, n % 256 >>

\* u32::from_be_bytes
from_be_bytes(b) == b[1] * 16777216 + b[2] * 65536 + b[3] * 256 + b[4]

encode_resource_id(anchor_handler_address, chain_id) ==
    << Field(8, 0), Field(20, anchor_handler_address),
       Field(4, to_be_bytes(as_u32(chain_id))) >>

\* The address is bytes 8..28 of the ResourceId, the chain id its last four
\* bytes read as a big-endian u32 and widened with U256::from.
decode_resource_id(r_id) ==
    [addr |-> r_id[2].val, chain_id |-> U256From(from_be_bytes(r_id[3].val))]

ProposalHeaderEncoded(header) ==
    << Field(32, header.resource_id),
       Field(4, header.function_sig),
       Field(4, header.nonce) >>

\* keccak256 is an uninterpreted injective function of its input.
keccak256(bytes) == <<"keccak256", bytes>>

VoteLabel == "vote_for_proposal_tx_key_prefix_"
ExecuteLabel == "execute_proposal_txx_key_prefix_"

make_vote_proposal_key(data_hash) == <<VoteLabel, data_hash>>
make_execute_proposal_key_VoteLabel(data_hash) == <<VoteLabel, data_hash>>

make_execute_proposal_key(data_hash) == <<ExecuteLabel, data_hash>>

----------------------------------------------------------------------------
(* The store: proposals table and tx queue *)

insert_proposal(tbl, entity) ==
    [h \in DOMAIN tbl \cup {entity.data_hash} |->
        IF h = entity.data_hash THEN entity ELSE tbl[h]]

remove_proposal_from(tbl, data_hash) ==
    [h \in DOMAIN tbl \ {data_hash} |-> tbl[h]]

SledQueueKey(chain_id, key) == [chain_id |-> chain_id, key |-> key]

QueueEntry(key, tx) == [chain_id |-> key.chain_id, key |-> key.key, tx |-> tx]

has_item(q, key) ==
    \E e \in DOMAIN q : e.chain_id = key.chain_id /\ e.key = key.key

enqueue_item(q, key, tx) ==
    LET e == QueueEntry(key, tx)
    IN [x \in DOMAIN q \cup {e} |->
           IF x = e THEN (IF e \in DOMAIN q THEN q[e] + 1 ELSE 1) ELSE q[x]]

remove_item(q, key) ==
    [x \in {e \in DOMAIN q : ~(e.chain_id = key.chain_id /\ e.key = key.key)}
        |-> q[x]]

dequeue_item(q, e) ==
    IF q[e] > 1
        THEN [q EXCEPT ![e] = q[e] - 1]
        ELSE [x \in DOMAIN q \ {e} |-> q[x]]

\* Number of queue entries stored under a key.
ItemCount(q, key) ==
    LET es == {e \in DOMAIN q : e.chain_id = key.chain_id /\ e.key = key.key}
        RECURSIVE Sum(_)
        Sum(S) == IF S = {} THEN 0
                  ELSE LET x == CHOOSE y \in S : TRUE IN q[x] + Sum(S \ {x})
    IN Sum(es)

----------------------------------------------------------------------------
(* Proposal data, the entity and the contract calls built from it *)

ProposalData ==
    [anchor_address : {AnchorAddress},
     anchor_handler_address : {DestHandler, OtherHandler},
     src_chain_id : SrcChainIds,
     leaf_index : LeafIndices,
     function_sig : {FunctionSig},
     merkle_root : Roots]

\* The 80 bytes of the proposal built by create_proposal.
ProposalBytes(data, dest_chain_id) ==
    LET header == [resource_id |-> encode_resource_id(data.anchor_address, dest_chain_id),
                   function_sig |-> data.function_sig,
                   chain_id |-> as_u32(dest_chain_id),
                   nonce |-> data.leaf_index]
    IN ProposalHeaderEncoded(header)
         \o << Field(4, as_u32(data.src_chain_id)),
               Field(4, data.leaf_index),
               Field(32, data.merkle_root) >>

ProposalEntityOf(data, dest_chain_id) ==
    LET proposal_data == ProposalBytes(data, dest_chain_id)
    IN [src_chain_id |-> data.src_chain_id,
        nonce |-> data.leaf_index,
        data |-> proposal_data,
        data_hash |-> keccak256(<<Field(20, data.anchor_handler_address)>> \o proposal_data),
        resource_id |-> encode_resource_id(data.anchor_address, dest_chain_id)]

\* The proposal data whose handler address is not the one the bridge has
\* registered for the resource id.
HandlerMismatch(data) ==
    resource_id_to_handler_address(ProposalEntityOf(data, DestChainId).resource_id)
        # data.anchor_handler_address

\* contract.vote_proposal(..): the call, of which call.tx is enqueued.
VoteProposalCall(entity) ==
    [tx |-> [function |-> "voteProposal",
             args |-> <<entity.src_chain_id, entity.nonce, entity.resource_id, entity.data_hash>>],
     block |-> <<>>]

\* contract.execute_proposal(..).block(n): .block sets the call's block field.
ExecuteProposalCall(entity, block) ==
    [tx |-> [function |-> "executeProposal",
             args |-> <<entity.src_chain_id, entity.nonce, entity.data, entity.resource_id>>],
     block |-> <<block>>]

\* Data hashes of the proposals the destination bridge can hold.
ChainHashes ==
    {ProposalEntityOf(d, DestChainId).data_hash :
        d \in {x \in ProposalData : x.anchor_handler_address = DestHandler}}

\* The merkle root a data hash of the destination bridge was built from.
RootOf(data_hash) ==
    CHOOSE r \in Roots :
        \E d \in ProposalData :
            /\ d.merkle_root = r
            /\ ProposalEntityOf(d, DestChainId).data_hash = data_hash

get_proposal(src_chain_id, nonce, data_hash) ==
    IF data_hash \in DOMAIN onchain THEN onchain[data_hash] ELSE Inactive

----------------------------------------------------------------------------
(* Initial state: an empty store, no proposal on the destination bridge *)

NoCall == [op |-> "none", path |-> "none", rep |-> FALSE]

\* The paths of a handler call that the history keeps.
Recorded(op, path, rep) ==
    \/ op = "create_proposal" /\ path \in {"skip_status", "skip_queued", "vote_active"}
    \/ op = "execute_proposal" /\ path = "skip_status"
    \/ op = "remove_proposal" /\ path = "removed" /\ rep
    \/ op = "handle_event" /\ path = "ignored_unknown"

Call(op, path, rep) ==
    IF Recorded(op, path, rep) THEN [op |-> op, path |-> path, rep |-> rep] ELSE NoCall

\* What the handler returned on a path (a crash returns nothing).
Result(path) ==
    CASE path \in {"err", "err_early"} -> "Err"
      [] path = "panic" -> "panic"
      [] path \in {"crash", "crash_after_remove_proposal",
                   "crash_after_remove_vote"} -> "crash"
      [] OTHER -> "Ok"

\* The deposits (src_chain_id, leaf_index) of the source anchor and the
\* data hashes signalled for each.
Deposits == SrcChainIds \X LeafIndices

HashesOf(dep) ==
    {ProposalEntityOf(d, DestChainId).data_hash :
        d \in {x \in ProposalData : x.src_chain_id = dep[1] /\ x.leaf_index = dep[2]}}

RECURSIVE SumIntents(_, _)
SumIntents(f, S) ==
    IF S = {} THEN 0
    ELSE LET x == CHOOSE y \in S : TRUE IN f[x] + SumIntents(f, S \ {x})

\* Vote txs enqueued so far for a deposit, over all its data hashes.
IntentsOf(dep) == SumIntents(voteIntents, HashesOf(dep) \cap DOMAIN voteIntents)

----------------------------------------------------------------------------
(* The anchor watcher: its configuration, its events and the destination   *)
(* anchors it reads                                                        *)

\* Chains of webb_config.evm, and the chain id and contracts of each.
DestChains == {"b", "c"}

ChainIdOf(chain) == IF chain = "b" THEN DestChainId ELSE U256From(200)

HandlerOf(chain) == <<"handler", chain>>
BridgeOf(chain) == <<"bridge", chain>>
PrivateKeyOf(chain) == <<"private_key", chain>>

\* config.linked_anchors: the chain name of each entry (its address is
\* AnchorAddress); "x" is a chain webb_config.evm does not have.
LinkedAnchorLists == { <<"b", "c">>, <<"x", "b">>, <<"b", "x">> }

Configs ==
    [linked_anchors : LinkedAnchorLists,
     evm : {DestChains},
     smart_anchor_updates : BOOLEAN,
     smart_anchor_updates_retries : 0..MaxRetries]

\* The watched source anchor and the events it emits.
SrcChainId == U256From(5)
SrcAnchorAddress == "src_anchor"

AnchorEvents ==
    [kind : {"Deposit", "EdgeAddition"}, leaf_index : {1},
     commitment : {"commitment"}, block_number : {1}]

\* The block the watched bridge contract was deployed at.
DeployedAt == 0

\* The proposal watcher before run(): not connected, nothing fetched.
\* windows: the ranges fetched since the last connect; covered: the blocks
\* of every range fetched so far; err: the error of the last failed attempt
\* ("none" while connected); elapsed: backoff delays slept; returned: what
\* run() returned.
NoPoll == [pc |-> "down", started |-> FALSE, block |-> 0, current |-> 0,
           windows |-> <<>>, covered |-> {}, err |-> "none", elapsed |-> 0,
           returned |-> "none"]

\* The tasks that race their work against the shutdown signal.
TaskNames == {"leaves", "proposal", "bridge"}

\* Before any signal: main waits in its select!, every task runs.
NoShutdown ==
    [signal |-> "none", main |-> "select", broadcasts |-> 0,
     tasks |-> [t \in TaskNames |-> "running"]]

\* ignite before its call, with no eth2 chain configured.
NoIgnite ==
    [chains |-> <<>>, env |-> [set |-> FALSE, val |-> <<>>], i |-> 1,
     started |-> <<>>, result |-> "none"]

\* The relay handler before its command.
NoRelay == [pc |-> "start", responses |-> <<>>, polled |-> 0]

InitService ==
    /\ shutdown = NoShutdown
    /\ ignite = NoIgnite
    /\ inflight = {}
    /\ relay = NoRelay

\* The leaf watchers before their first event.
\* evm, sub: events handled in this pass; evm_hi, sub_hi: events handled in
\* any pass; evm_redone, sub_redone: an event was handled a second time.
\* watcher: the leaf watcher task that is running.
NoScan == [watcher |-> "none", evm |-> 0, sub |-> 0, evm_hi |-> 0, sub_hi |-> 0,
           evm_redone |-> FALSE, sub_redone |-> FALSE]

\* The handler before an event: nothing read, no linked anchor visited.
IdleOracle ==
    [phase |-> "idle", leaf_index |-> 0, root |-> 0, outcomes |-> <<>>,
     k |-> 0, slept |-> 0, first |-> 0, woke |-> 0, failures |-> 0]

InitBridge ==
    /\ proposals = <<>>
    /\ queue = <<>>
    /\ onchain = [h \in ChainHashes |-> Inactive]
    /\ events = {}
    /\ blockNumber = 0
    /\ lastRoot = 1
    /\ voteIntents = [h \in ChainHashes |-> 0]
    /\ handled = {}
    /\ last = NoCall

\* The anchor watcher before a deposit, the bridge watcher at rest.
InitSignal ==
    /\ InitBridge
    /\ config \in Configs
    /\ next_index = [c \in DestChains |-> 0]
    /\ leaves = {}
    /\ last_deposit_block = <<>>
    /\ oracle = IdleOracle
    /\ sent = <<>>
    /\ resource_ids = <<>>
    /\ decoded = <<>>
    /\ runs = <<>>
    /\ head = DeployedAt
    /\ poll = NoPoll
    /\ InitService
    /\ evmLog = <<>>
    /\ subLog = <<>>
    /\ scan = NoScan

\* The bridge watcher runs with the anchor watcher at rest.
Init ==
    /\ InitBridge
    /\ config = [linked_anchors |-> <<"b", "c">>, evm |-> DestChains,
                 smart_anchor_updates |-> FALSE, smart_anchor_updates_retries |-> 0]
    /\ next_index = [c \in DestChains |-> 0]
    /\ leaves = {}
    /\ last_deposit_block = <<>>
    /\ oracle = IdleOracle
    /\ sent = <<>>
    /\ resource_ids = <<>>
    /\ decoded = <<>>
    /\ runs = <<>>
    /\ head = DeployedAt
    /\ poll = NoPoll
    /\ InitService
    /\ evmLog = <<>>
    /\ subLog = <<>>
    /\ scan = NoScan

----------------------------------------------------------------------------
(* handle_cmd(CreateProposal(data)) -> create_proposal; the command carries *)
(* the latest root of the source anchor.                                    *)
(* out names where the call ends: "ok" runs to its return, "err_rpc" is the *)
(* failure of one of its RPCs (get_chainid, resource_id_to_handler_address, *)
(* get_proposal: all three come before the first store write),              *)
(* "crash_after_enqueue" stops the process between the two store writes.    *)

CreateOuts == {"ok", "err_rpc", "crash_after_enqueue"}

\* create_proposal without the has_item check before enqueue_item.
CreatePath_NoQueueCheck(data, out) ==
    LET entity == ProposalEntityOf(data, DestChainId)
        status == ProposalStatusFrom(
                      get_proposal(data.src_chain_id, data.leaf_index, entity.data_hash))
    IN IF out = "err_rpc" THEN "err"
       ELSE IF as_u32_panics(DestChainId) \/ as_u32_panics(data.src_chain_id)
            THEN "panic"
       ELSE IF resource_id_to_handler_address(entity.resource_id)
                   # data.anchor_handler_address THEN "panic"
       ELSE IF status >= Passed THEN "skip_status"
       ELSE IF out = "crash_after_enqueue" THEN "crash"
       ELSE "vote"

\* create_proposal with the status guard `status > Passed`.
CreatePath_VoteWhenPassed(data, out) ==
    LET entity == ProposalEntityOf(data, DestChainId)
        status == ProposalStatusFrom(
                      get_proposal(data.src_chain_id, data.leaf_index, entity.data_hash))
        key == SledQueueKey(DestChainId, make_vote_proposal_key(entity.data_hash))
    IN IF out = "err_rpc" THEN "err"
       ELSE IF as_u32_panics(DestChainId) \/ as_u32_panics(data.src_chain_id)
            THEN "panic"
       ELSE IF resource_id_to_handler_address(entity.resource_id)
                   # data.anchor_handler_address THEN "panic"
       ELSE IF status > Passed THEN "skip_status"
       ELSE IF has_item(queue, key) THEN "skip_queued"
       ELSE IF out = "crash_after_enqueue" THEN "crash"
       ELSE "vote"

\* create_proposal that votes for an Inactive proposal only.
CreatePath_SkipWhenActive(data, out) ==
    LET entity == ProposalEntityOf(data, DestChainId)
        status == ProposalStatusFrom(
                      get_proposal(data.src_chain_id, data.leaf_index, entity.data_hash))
        key == SledQueueKey(DestChainId, make_vote_proposal_key(entity.data_hash))
    IN IF out = "err_rpc" THEN "err"
       ELSE IF as_u32_panics(DestChainId) \/ as_u32_panics(data.src_chain_id)
            THEN "panic"
       ELSE IF resource_id_to_handler_address(entity.resource_id)
                   # data.anchor_handler_address THEN "panic"
       ELSE IF status >= Active THEN "skip_status"
       ELSE IF has_item(queue, key) THEN "skip_queued"
       ELSE IF out = "crash_after_enqueue" THEN "crash"
       ELSE "vote"

\* The path create_proposal takes on (data, out) in the current state.
CreatePath(data, out) ==
    LET dest_chain_id == DestChainId
        entity == ProposalEntityOf(data, dest_chain_id)
        status == ProposalStatusFrom(
                      get_proposal(data.src_chain_id, data.leaf_index, entity.data_hash))
        key == SledQueueKey(dest_chain_id, make_vote_proposal_key(entity.data_hash))
    IN IF out = "err_rpc" THEN "err"
       ELSE IF as_u32_panics(DestChainId) \/ as_u32_panics(data.src_chain_id)
            THEN "panic"
       ELSE IF resource_id_to_handler_address(entity.resource_id)
                   # data.anchor_handler_address THEN "panic"
       ELSE IF status >= Passed THEN "skip_status"
       ELSE IF has_item(queue, key) THEN "skip_queued"
       ELSE IF out = "crash_after_enqueue" THEN "crash"
       ELSE "vote"

create_proposal(data, out) ==
    LET dest_chain_id == DestChainId
        entity == ProposalEntityOf(data, dest_chain_id)
        call == VoteProposalCall(entity)
        key == SledQueueKey(dest_chain_id, make_vote_proposal_key(entity.data_hash))
        path == CreatePath(data, out)
        enqueues == path \in {"vote", "crash"}
        status == ProposalStatusFrom(
                      get_proposal(data.src_chain_id, data.leaf_index, entity.data_hash))
    IN /\ data.merkle_root = lastRoot
       /\ out # "ok" => path \in {"err", "crash"}
       /\ enqueues => IntentsOf(<<data.src_chain_id, data.leaf_index>>) < MaxIntents
       /\ queue' = IF enqueues THEN enqueue_item(queue, key, call.tx) ELSE queue
       /\ proposals' = IF path = "vote"
                          THEN insert_proposal(proposals, entity) ELSE proposals
       /\ voteIntents' = IF enqueues
                            THEN [voteIntents EXCEPT ![entity.data_hash] = @ + 1]
                            ELSE voteIntents
       /\ last' = Call("create_proposal",
                        IF path = "vote" /\ status = Active THEN "vote_active" ELSE path,
                        FALSE)
       /\ UNCHANGED <<onchain, events, blockNumber, lastRoot, handled>>
       /\ UNCHANGED signalVars

HandleCmd ==
    \E data \in ProposalData, out \in CreateOuts : create_proposal(data, out)

----------------------------------------------------------------------------
(* handle_event(ProposalEvent{status, data_hash}) and its two handlers *)

ProposalEvent(status, data_hash) == [status |-> status, data_hash |-> data_hash]

\* The history kept of a handler run on event e that took the given path.
EventDone(e, op, path) ==
    /\ last' = Call(op, path, e \in handled)
    /\ handled' = IF Result(path) = "Ok" THEN handled \cup {e} ELSE handled
    /\ UNCHANGED <<onchain, events, blockNumber, lastRoot, voteIntents>>
    /\ UNCHANGED signalVars

RemoveOuts == {"ok", "err_get_chainid", "crash_after_remove_proposal",
               "crash_after_remove_vote"}

RemovePath(out) ==
    CASE out = "ok" -> "removed"
      [] out = "err_get_chainid" -> "err_early"
      [] OTHER -> out

\* remove_proposal that removes the entity and the Vote entry only.
remove_proposal_KeepsExecute(e, out) ==
    LET data_hash == e.data_hash
        vote_key == SledQueueKey(DestChainId, make_vote_proposal_key(data_hash))
    IN /\ proposals' = IF out = "err_get_chainid" THEN proposals
                       ELSE remove_proposal_from(proposals, data_hash)
       /\ queue' = IF out \in {"ok", "crash_after_remove_vote"}
                      THEN remove_item(queue, vote_key) ELSE queue
       /\ EventDone(e, "remove_proposal", RemovePath(out))

\* remove_proposal that fails when the store holds no entity for the hash.
remove_proposal_ErrWhenAbsent(e, out) ==
    LET data_hash == e.data_hash
        vote_key == SledQueueKey(DestChainId, make_vote_proposal_key(data_hash))
        execute_key == SledQueueKey(DestChainId, make_execute_proposal_key(data_hash))
        q1 == remove_item(queue, vote_key)
        q2 == remove_item(q1, execute_key)
        absent == out # "err_get_chainid" /\ data_hash \notin DOMAIN proposals
    IN /\ proposals' = IF out = "err_get_chainid" THEN proposals
                       ELSE remove_proposal_from(proposals, data_hash)
       /\ queue' = CASE absent -> queue
                     [] out = "ok" -> q2
                     [] out = "crash_after_remove_vote" -> q1
                     [] OTHER -> queue
       /\ EventDone(e, "remove_proposal", IF absent THEN "err" ELSE RemovePath(out))

remove_proposal(e, out) ==
    LET data_hash == e.data_hash
        chain_id == DestChainId
        vote_key == SledQueueKey(chain_id, make_vote_proposal_key(data_hash))
        execute_key == SledQueueKey(chain_id, make_execute_proposal_key(data_hash))
        q1 == remove_item(queue, vote_key)
        q2 == remove_item(q1, execute_key)
    IN /\ proposals' = IF out = "err_get_chainid" THEN proposals
                       ELSE remove_proposal_from(proposals, data_hash)
       /\ queue' = CASE out = "ok" -> q2
                     [] out = "crash_after_remove_vote" -> q1
                     [] OTHER -> queue
       /\ EventDone(e, "remove_proposal", RemovePath(out))

ExecuteOuts == {"ok", "err_get_chainid", "err_get_proposal", "err_get_block_number"}

\* execute_proposal that turns a missing entity into an error.
ExecutePath_ErrWhenAbsent(data_hash, out) ==
    LET key == SledQueueKey(DestChainId, make_execute_proposal_key(data_hash))
        entity == proposals[data_hash]
        status == ProposalStatusFrom(
                      get_proposal(entity.src_chain_id, entity.nonce, entity.data_hash))
    IN IF out = "err_get_chainid" THEN "err_early"
       ELSE IF data_hash \notin DOMAIN proposals THEN "err"
       ELSE IF out = "err_get_proposal" THEN "err"
       ELSE IF status >= Executed THEN "skip_status"
       ELSE IF status # Passed THEN "panic"
       ELSE IF out = "err_get_block_number" THEN "err"
       ELSE IF has_item(queue, key) THEN "skip_queued"
       ELSE "execute"

\* execute_proposal without the check of the status read from the bridge.
ExecutePath_NoStatusGuard(data_hash, out) ==
    LET key == SledQueueKey(DestChainId, make_execute_proposal_key(data_hash))
    IN IF out = "err_get_chainid" THEN "err_early"
       ELSE IF data_hash \notin DOMAIN proposals THEN "skip_absent"
       ELSE IF out = "err_get_proposal" THEN "err"
       ELSE IF out = "err_get_block_number" THEN "err"
       ELSE IF has_item(queue, key) THEN "skip_queued"
       ELSE "execute"

\* execute_proposal that skips only on the status Executed.
ExecutePath_SkipOnlyExecuted(data_hash, out) ==
    LET key == SledQueueKey(DestChainId, make_execute_proposal_key(data_hash))
        entity == proposals[data_hash]
        status == ProposalStatusFrom(
                      get_proposal(entity.src_chain_id, entity.nonce, entity.data_hash))
    IN IF out = "err_get_chainid" THEN "err_early"
       ELSE IF data_hash \notin DOMAIN proposals THEN "skip_absent"
       ELSE IF out = "err_get_proposal" THEN "err"
       ELSE IF status = Executed THEN "skip_status"
       ELSE IF status # Passed THEN "panic"
       ELSE IF out = "err_get_block_number" THEN "err"
       ELSE IF has_item(queue, key) THEN "skip_queued"
       ELSE "execute"

\* The path execute_proposal takes on (data_hash, out) in the current state.
ExecutePath(data_hash, out) ==
    LET key == SledQueueKey(DestChainId, make_execute_proposal_key(data_hash))
        entity == proposals[data_hash]
        status == ProposalStatusFrom(
                      get_proposal(entity.src_chain_id, entity.nonce, entity.data_hash))
    IN IF out = "err_get_chainid" THEN "err_early"
       ELSE IF data_hash \notin DOMAIN proposals THEN "skip_absent"
       ELSE IF out = "err_get_proposal" THEN "err"
       ELSE IF status >= Executed THEN "skip_status"
       ELSE IF status # Passed THEN "panic"
       ELSE IF out = "err_get_block_number" THEN "err"
       ELSE IF has_item(queue, key) THEN "skip_queued"
       ELSE "execute"

execute_proposal(e, out) ==
    LET data_hash == e.data_hash
        chain_id == DestChainId
        path == ExecutePath(data_hash, out)
        entity == proposals[data_hash]
        current_block_number == blockNumber
        call == ExecuteProposalCall(entity, current_block_number + 1)
        key == SledQueueKey(chain_id, make_execute_proposal_key(data_hash))
    IN /\ out # "ok" => path \in {"err_early", "err"}
       /\ proposals' = IF path = "err_early" THEN proposals
                       ELSE remove_proposal_from(proposals, data_hash)
       /\ queue' = IF path = "execute"
                      THEN enqueue_item(queue, key, call.tx) ELSE queue
       /\ EventDone(e, "execute_proposal", path)

\* The variants of BridgeContractEvents other than ProposalEventFilter.
OtherBridgeEvents ==
    {[kind |-> k] : k \in {"Paused", "ProposalVote", "RelayerAdded", "RelayerRemoved",
                           "RelayerThresholdChanged", "RoleGranted", "RoleRevoked",
                           "Unpaused", "Deposit"}}

IsProposalEvent(e) == "status" \in DOMAIN e

handle_event_arm_ActiveAsPassed(e) ==
    IF ~IsProposalEvent(e) THEN "trace"
    ELSE CASE ProposalStatusFrom(e.status) \in {Executed, Cancelled} -> "remove_proposal"
           [] ProposalStatusFrom(e.status) \in {Passed, Active} -> "execute_proposal"
           [] OTHER -> "ignored"

\* The arm of the two matches of handle_event that an event takes.
handle_event_arm(e) ==
    IF ~IsProposalEvent(e) THEN "trace"
    ELSE CASE ProposalStatusFrom(e.status) \in {Executed, Cancelled} -> "remove_proposal"
           [] ProposalStatusFrom(e.status) = Passed -> "execute_proposal"
           [] OTHER -> "ignored"

\* handle_event on event e; out names where the handler it calls ends.
handle_event(e, out) ==
    LET arm == handle_event_arm(e)
    IN CASE arm = "remove_proposal" -> out \in RemoveOuts /\ remove_proposal(e, out)
         [] arm = "execute_proposal" -> out \in ExecuteOuts /\ execute_proposal(e, out)
         [] OTHER ->
              /\ out = "ok"
              /\ last' = Call("handle_event",
                               IF arm = "ignored" /\ ProposalStatusFrom(e.status) = Unknown
                                   THEN "ignored_unknown" ELSE arm,
                               FALSE)
              /\ UNCHANGED <<proposals, queue, onchain, events, blockNumber, lastRoot,
                             voteIntents, handled>>
              /\ UNCHANGED signalVars

\* What handle_event returns.
handle_event_result(e, out) ==
    LET arm == handle_event_arm(e)
    IN CASE arm = "remove_proposal" -> Result(RemovePath(out))
         [] arm = "execute_proposal" -> Result(ExecutePath(e.data_hash, out))
         [] OTHER -> "Ok"

HandleEventRemove ==
    \E e \in events, out \in RemoveOuts :
        /\ handle_event_arm(e) = "remove_proposal"
        /\ handle_event(e, out)

HandleEventExecute ==
    \E e \in events, out \in ExecuteOuts :
        /\ handle_event_arm(e) = "execute_proposal"
        /\ handle_event(e, out)

HandleEventOther ==
    \E e \in events \cup OtherBridgeEvents :
        /\ handle_event_arm(e) \in {"ignored", "trace"}
        /\ handle_event(e, "ok")

----------------------------------------------------------------------------
(* The tx queue runner: a queued tx is submitted and, once confirmed, its  *)
(* entry is removed; an entry that carries min_block waits for that height *)

TxQueueRun ==
    \E e \in DOMAIN queue :
        /\ "min_block" \in DOMAIN e.tx => blockNumber >= e.tx.min_block
        /\ queue' = dequeue_item(queue, e)
        /\ last' = NoCall
        /\ UNCHANGED <<proposals, onchain, events, blockNumber, lastRoot,
                       voteIntents, handled>>
        /\ UNCHANGED signalVars

----------------------------------------------------------------------------
(* The destination bridge: each transition of a proposal is a transaction  *)
(* in a new block and emits a ProposalEvent with the new status; a         *)
(* proposal exists on the bridge once the source anchor has reported its   *)
(* root                                                                    *)

ChainNext(from) ==
    CASE from = Inactive -> {Active, Cancelled}
      [] from = Active -> {Passed, Cancelled}
      [] from = Passed -> {Executed, Cancelled}
      [] OTHER -> {}

ChainTransition ==
    \E h \in ChainHashes :
        \E to \in ChainNext(onchain[h]) :
            /\ RootOf(h) <= lastRoot
            /\ blockNumber < MaxBlock
            /\ onchain' = [onchain EXCEPT ![h] = to]
            /\ events' = events \cup {ProposalEvent(to, h)}
            /\ blockNumber' = blockNumber + 1
            /\ last' = NoCall
            /\ UNCHANGED <<proposals, queue, lastRoot, voteIntents, handled>>
            /\ UNCHANGED signalVars

\* A status byte outside the five the relayer knows (From<u8> maps it to
\* Unknown): a bridge that reports it for a proposal that was not final.
UnlistedStatusByte == 5

ChainTransitionUnlisted ==
    \E h \in ChainHashes :
        /\ onchain[h] \in {Inactive, Active, Passed}
        /\ RootOf(h) <= lastRoot
        /\ blockNumber < MaxBlock
        /\ onchain' = [onchain EXCEPT ![h] = UnlistedStatusByte]
        /\ events' = events \cup {ProposalEvent(UnlistedStatusByte, h)}
        /\ blockNumber' = blockNumber + 1
        /\ last' = NoCall
        /\ UNCHANGED <<proposals, queue, lastRoot, voteIntents, handled>>
        /\ UNCHANGED signalVars

\* A later deposit changes the latest root of the source anchor.
SourceRootAdvance ==
    /\ lastRoot < MaxRoot
    /\ lastRoot' = lastRoot + 1
    /\ last' = NoCall
    /\ UNCHANGED <<proposals, queue, onchain, events, blockNumber, voteIntents, handled>>
    /\ UNCHANGED signalVars

----------------------------------------------------------------------------
(* AnchorWatcher<ForOracle>::handle_event: the deposit handler. Each action *)
(* is the code between two points where the handler waits (an RPC of the    *)
(* destination, the 10 s sleep), so that the destination anchors can move   *)
(* while it waits. out = "err" is the failure of an RPC of the step.        *)

\* The leaf table is append-only: an insert at an index that holds another
\* commitment is rejected with an error and changes nothing.
insert_leaves_rejects(tbl, key, index, commitment) ==
    \E l \in tbl : l.key = key /\ l.index = index /\ l.commitment # commitment

insert_leaves(tbl, key, index, commitment) ==
    IF insert_leaves_rejects(tbl, key, index, commitment)
       THEN tbl
       ELSE tbl \cup {[key |-> key, index |-> index, commitment |-> commitment]}

insert_last_deposit_block_number(tbl, key, block_number) ==
    [k \in DOMAIN tbl \cup {key} |-> IF k = key THEN block_number ELSE tbl[k]]

saturating_sub(a, b) == IF a < b THEN 0 ELSE a - b

\* The chain type bytes [1, 0] of an EVM chain.
ChainTypeEvm == <<1, 0>>

\* crate::events_watcher::encode_resource_id with a chain type argument.
encode_resource_id_typed(anchor_address, chain_type, chain_id) ==
    << Field(6, 0), Field(20, anchor_address), Field(2, chain_type),
       Field(4, as_u32(chain_id)) >>

\* wallet.sign_hash(hash, false)
sign_hash(key, hash) == <<"signature", key, hash>>

\* The linked anchor the handler is at, and whether the loop is over.
AnchorIndex == Len(oracle.outcomes) + 1
AnchorsDone == AnchorIndex > Len(config.linked_anchors)
CurrentChain == config.linked_anchors[AnchorIndex]

OracleFrame ==
    UNCHANGED <<bridgeVars, config, next_index, codecVars, leafVars, runs, pollVars,
                serviceVars>>

\* Lines 129-161: a deposit is cached, then the chain id and the last root of
\* the source anchor are read; any other event returns Ok at once.
CacheDepositKey == <<SrcChainId, SrcAnchorAddress>>

\* Lines 130-143: whether the insert of the deposit's leaf is rejected, and
\* the leaf table and the last deposit block after the two store writes.
CacheDepositRejected(event, out) ==
    /\ out # "err_get_chainid"
    /\ event.kind = "Deposit"
    /\ insert_leaves_rejects(leaves, CacheDepositKey, event.leaf_index, event.commitment)

CacheDepositLeaves(event, out) ==
    IF out # "err_get_chainid" /\ event.kind = "Deposit"
       THEN insert_leaves(leaves, CacheDepositKey, event.leaf_index, event.commitment)
       ELSE leaves

CacheDepositBlock(event, out) ==
    IF /\ out # "err_get_chainid"
       /\ event.kind = "Deposit"
       /\ ~CacheDepositRejected(event, out)
       THEN insert_last_deposit_block_number(last_deposit_block, CacheDepositKey,
                                             event.block_number)
       ELSE last_deposit_block

\* The start of one call of handle_event, from the handler state o.
OracleRun(o, event, out) ==
    LET rejected == CacheDepositRejected(event, out)
    IN /\ out \in {"ok", "err_get_chainid", "err_get_last_root"}
       /\ event.kind # "Deposit" => out = "ok"
       /\ leaves' = CacheDepositLeaves(event, out)
       /\ last_deposit_block' = CacheDepositBlock(event, out)
       /\ oracle' = IF event.kind # "Deposit" THEN [o EXCEPT !.phase = "ok"]
                     ELSE IF out # "ok" \/ rejected THEN [o EXCEPT !.phase = "err"]
                     ELSE [o EXCEPT !.phase = "anchor",
                                    !.leaf_index = event.leaf_index,
                                    !.root = lastRoot]
       /\ UNCHANGED sent
       /\ OracleFrame

OracleBegin(event, out) ==
    /\ oracle.phase = "idle"
    /\ OracleRun(oracle, event, out)

\* A loop that leaves the linked anchors after the first missing chain.
OracleAnchor_StopAtMissing(out) ==
    LET experimental == config
        retry_count == IF experimental.smart_anchor_updates
                          THEN experimental.smart_anchor_updates_retries ELSE 0
    IN /\ oracle.phase = "anchor"
       /\ oracle' =
             IF AnchorsDone THEN [oracle EXCEPT !.phase = "ok"]
             ELSE IF CurrentChain \notin config.evm
                  THEN [oracle EXCEPT !.phase = "ok"]
             ELSE IF out = "err" THEN [oracle EXCEPT !.phase = "err"]
             ELSE [oracle EXCEPT !.phase = IF retry_count = 0 THEN "issue" ELSE "check",
                                 !.k = retry_count, !.slept = 0,
                                 !.first = 0, !.woke = 0]
       /\ (out = "err") => (~AnchorsDone /\ CurrentChain \in config.evm)
       /\ UNCHANGED <<leaves, last_deposit_block, sent>>
       /\ OracleFrame

\* A retry count taken from the configuration whether smart updates are on
\* or not.
OracleAnchor_RetriesIgnoreFlag(out) ==
    LET experimental == config
        retry_count == experimental.smart_anchor_updates_retries
    IN /\ oracle.phase = "anchor"
       /\ oracle' =
             IF AnchorsDone THEN [oracle EXCEPT !.phase = "ok"]
             ELSE IF CurrentChain \notin config.evm
                  THEN [oracle EXCEPT !.outcomes = Append(@, "unconfigured")]
             ELSE IF out = "err" THEN [oracle EXCEPT !.phase = "err"]
             ELSE [oracle EXCEPT !.phase = IF retry_count = 0 THEN "issue" ELSE "check",
                                 !.k = retry_count, !.slept = 0,
                                 !.first = 0, !.woke = 0]
       /\ (out = "err") => (~AnchorsDone /\ CurrentChain \in config.evm)
       /\ UNCHANGED <<leaves, last_deposit_block, sent>>
       /\ OracleFrame

\* Lines 186-212: the next linked anchor. A chain webb_config.evm does not
\* have is passed over; for the others the provider is built, the chain id
\* read and the number of retries chosen. After the last one: Ok(()).
OracleAnchor(out) ==
    LET experimental == config
        retry_count == IF experimental.smart_anchor_updates
                          THEN experimental.smart_anchor_updates_retries ELSE 0
    IN /\ oracle.phase = "anchor"
       /\ oracle' =
             IF AnchorsDone THEN [oracle EXCEPT !.phase = "ok"]
             ELSE IF CurrentChain \notin config.evm
                  THEN [oracle EXCEPT !.outcomes = Append(@, "unconfigured")]
             ELSE IF out = "err" THEN [oracle EXCEPT !.phase = "err"]
             ELSE [oracle EXCEPT !.phase = IF retry_count = 0 THEN "issue" ELSE "check",
                                 !.k = retry_count, !.slept = 0,
                                 !.first = 0, !.woke = 0]
       /\ (out = "err") => (~AnchorsDone /\ CurrentChain \in config.evm)
       /\ UNCHANGED <<leaves, last_deposit_block, sent>>
       /\ OracleFrame

\* Lines 213-228: one pass of the retry loop up to the sleep: next_index() of
\* the destination is read and a destination that is ahead is skipped.
OracleCheck(out) ==
    LET dest_leaf_index == next_index[CurrentChain]
    IN /\ oracle.phase = "check"
       /\ oracle' =
             IF out = "err" THEN [oracle EXCEPT !.phase = "err"]
             ELSE IF oracle.leaf_index < saturating_sub(dest_leaf_index, 1)
                  THEN [oracle EXCEPT !.phase = "anchor",
                                      !.outcomes = Append(@, "skipped")]
             ELSE [oracle EXCEPT !.phase = "sleep",
                                 !.first = IF oracle.slept = 0
                                              THEN dest_leaf_index ELSE @]
       /\ UNCHANGED <<leaves, last_deposit_block, sent>>
       /\ OracleFrame

\* Lines 238-241: the sleep of 10 s ends; the loop goes round again or ends.
OracleWake ==
    /\ oracle.phase = "sleep"
    /\ oracle' = [oracle EXCEPT !.phase = IF oracle.k = 1 THEN "issue" ELSE "check",
                                !.k = @ - 1,
                                !.slept = @ + 10,
                                !.woke = next_index[CurrentChain]]
    /\ UNCHANGED <<leaves, last_deposit_block, sent>>
    /\ OracleFrame

\* A handler that logs a failed signal and goes on to the next linked anchor.
OracleIssue_ErrorSwallowed(out) ==
    /\ oracle.phase = "issue"
    /\ oracle' = IF out = "err"
                    THEN [oracle EXCEPT !.phase = "anchor",
                                        !.outcomes = Append(@, "failed")]
                    ELSE [oracle EXCEPT !.phase = "anchor",
                                        !.outcomes = Append(@, "signaled")]
    /\ sent' = IF out = "err" THEN sent
                ELSE Append(sent, [to |-> BridgeOf(CurrentChain),
                                   data |-> [leaf_index |-> oracle.leaf_index]])
    /\ UNCHANGED <<leaves, last_deposit_block>>
    /\ OracleFrame

\* Lines 244-311: the handler and bridge of the destination are read, the
\* proposal is built, hashed and signed, and execute_proposal_with_signature
\* is called on the destination bridge.
OracleIssue(out) ==
    LET dest_chain_id == ChainIdOf(CurrentChain)
        dest_handler == HandlerOf(CurrentChain)
        dest_bridge_address == BridgeOf(CurrentChain)
        data == [anchor_address |-> AnchorAddress,
                 anchor_handler_address |-> dest_handler,
                 src_chain_id |-> SrcChainId,
                 leaf_index |-> oracle.leaf_index,
                 function_sig |-> FunctionSig,
                 merkle_root |-> oracle.root]
        resource_id == encode_resource_id_typed(data.anchor_address, ChainTypeEvm,
                                                dest_chain_id)
        header == [resource_id |-> resource_id,
                   function_sig |-> data.function_sig,
                   chain_id |-> as_u32(dest_chain_id),
                   nonce |-> data.leaf_index + 1]
        proposal_data ==
            ProposalHeaderEncoded(header)
               \o << Field(2, ChainTypeEvm),
                     Field(4, as_u32(data.src_chain_id)),
                     Field(4, data.leaf_index),
                     Field(32, data.merkle_root) >>
        hashed_data == keccak256(proposal_data)
        signed_data == sign_hash(PrivateKeyOf(CurrentChain), hashed_data)
        call == [to |-> dest_bridge_address,
                 dest_chain_id |-> dest_chain_id,
                 function |-> "executeProposalWithSignature",
                 args |-> <<hashed_data, signed_data>>,
                 data |-> data,
                 header |-> header,
                 proposal_data |-> proposal_data,
                 slept |-> oracle.slept,
                 first |-> oracle.first,
                 woke |-> oracle.woke]
    IN /\ oracle.phase = "issue"
       /\ oracle' = IF out = "err" THEN [oracle EXCEPT !.phase = "err"]
                     ELSE [oracle EXCEPT !.phase = "anchor",
                                         !.outcomes = Append(@, "signaled")]
       /\ sent' = IF out = "err" THEN sent ELSE Append(sent, call)
       /\ UNCHANGED <<leaves, last_deposit_block>>
       /\ OracleFrame

\* Another relayer updates a destination anchor: its next_index grows.
DestAdvance ==
    \E c \in DestChains :
        /\ next_index[c] < MaxNextIndex
        /\ oracle.phase \notin {"ok", "err"}
        /\ next_index' = [next_index EXCEPT ![c] = @ + 1]
        /\ UNCHANGED <<bridgeVars, config, leaves, last_deposit_block, oracle, sent,
                       codecVars, leafVars, runs, pollVars, serviceVars>>

HandleDeposit ==
    \E event \in AnchorEvents, out \in {"ok", "err_get_chainid", "err_get_last_root"} :
        OracleBegin(event, out)

NextSignal ==
    \/ HandleDeposit
    \/ \E out \in {"ok", "err"} : OracleAnchor(out)
    \/ \E out \in {"ok", "err"} : OracleCheck(out)
    \/ OracleWake
    \/ \E out \in {"ok", "err"} : OracleIssue(out)
    \/ DestAdvance

SpecSignal == InitSignal /\ [][NextSignal]_vars

----------------------------------------------------------------------------
(* The deposit handler under the event watcher that calls it: a call that   *)
(* returns Err is repeated for the same event after a backoff delay.  RPC   *)
(* failures are transient: at most MaxFailures calls of the handler fail.    *)

\* The configurations of the watcher: the smart-update gate off, or on with
\* one retry.
RetryConfigs ==
    {c \in Configs :
        c.smart_anchor_updates_retries = IF c.smart_anchor_updates THEN 1 ELSE 0}

InitSignalRetry ==
    /\ InitBridge
    /\ config \in RetryConfigs
    /\ next_index = [c \in DestChains |-> 0]
    /\ leaves = {}
    /\ last_deposit_block = <<>>
    /\ oracle = IdleOracle
    /\ sent = <<>>
    /\ resource_ids = <<>>
    /\ decoded = <<>>
    /\ runs = <<>>
    /\ head = DeployedAt
    /\ poll = NoPoll
    /\ InitService
    /\ evmLog = <<>>
    /\ subLog = <<>>
    /\ scan = NoScan

\* An RPC of the handler may still fail.
MayFail == oracle.failures < MaxFailures

\* The watcher calls handle_event again for the event whose call failed.
WatcherRetry ==
    \E event \in AnchorEvents, out \in {"ok", "err_get_chainid", "err_get_last_root"} :
        /\ oracle.phase = "err"
        /\ event.kind = "Deposit"
        /\ out # "ok" => oracle.failures + 1 < MaxFailures
        /\ OracleRun([IdleOracle EXCEPT !.failures = oracle.failures + 1], event, out)

HandlerOuts == IF MayFail THEN {"ok", "err"} ELSE {"ok"}

DepositDelivered ==
    \E event \in AnchorEvents,
       out \in IF MayFail THEN {"ok", "err_get_chainid", "err_get_last_root"} ELSE {"ok"} :
        OracleBegin(event, out)

HandlerStep ==
    \/ \E out \in HandlerOuts : OracleAnchor(out)
    \/ \E out \in HandlerOuts : OracleCheck(out)
    \/ OracleWake
    \/ \E out \in HandlerOuts : OracleIssue(out)
    \/ WatcherRetry

NextSignalRetry ==
    \/ DepositDelivered
    \/ HandlerStep
    \/ DestAdvance

\* The handler is one task of the runtime: an await of it that can complete
\* does complete, and a failed call is repeated once its delay has passed.
SpecSignalRetry == InitSignalRetry /\ [][NextSignalRetry]_vars /\ WF_vars(HandlerStep)

----------------------------------------------------------------------------
(* encode_resource_id and decode_resource_id applied to addresses and chain *)
(* ids, among them chain ids that do not fit 32 bits.  At most MaxEncoded   *)
(* pairs are encoded in one behaviour.                                      *)

CodecAddresses == {AnchorAddress, DestHandler}
CodecChainIds == {U256(hi, lo) : hi \in {0, 1}, lo \in {4, 258, 16909060}}
CodecInputs == [addr : CodecAddresses, chain_id : CodecChainIds]

\* The ResourceIds made so far.
EncodedIds == {resource_ids[i].r_id : i \in {j \in DOMAIN resource_ids :
                                                 ~resource_ids[j].panicked}}

InitResourceId ==
    /\ InitBridge
    /\ config = [linked_anchors |-> <<"b", "c">>, evm |-> DestChains,
                 smart_anchor_updates |-> FALSE, smart_anchor_updates_retries |-> 0]
    /\ next_index = [c \in DestChains |-> 0]
    /\ leaves = {}
    /\ last_deposit_block = <<>>
    /\ oracle = IdleOracle
    /\ sent = <<>>
    /\ resource_ids = <<>>
    /\ decoded = <<>>
    /\ runs = <<>>
    /\ head = DeployedAt
    /\ poll = NoPoll
    /\ InitService
    /\ evmLog = <<>>
    /\ subLog = <<>>
    /\ scan = NoScan

CodecFrame ==
    UNCHANGED <<bridgeVars, config, next_index, leaves, last_deposit_block,
                oracle, sent, leafVars, runs, pollVars, serviceVars>>

\* encode_resource_id(addr, chain_id): as_u32 panics before anything is
\* written when the chain id does not fit 32 bits.
EncodeResourceId ==
    \E input \in CodecInputs :
        /\ input \notin DOMAIN resource_ids
        /\ Cardinality(DOMAIN resource_ids) < MaxEncoded
        /\ LET result ==
                 IF as_u32_panics(input.chain_id)
                    THEN [panicked |-> TRUE, r_id |-> <<>>]
                    ELSE [panicked |-> FALSE,
                          r_id |-> encode_resource_id(input.addr, input.chain_id)]
           IN resource_ids' = [i \in DOMAIN resource_ids \cup {input} |->
                                  IF i = input THEN result ELSE resource_ids[i]]
        /\ UNCHANGED decoded
        /\ CodecFrame

\* decode_resource_id(r_id) of a ResourceId that encode_resource_id made.
DecodeResourceId ==
    \E r_id \in EncodedIds :
        /\ r_id \notin DOMAIN decoded
        /\ decoded' = [r \in DOMAIN decoded \cup {r_id} |->
                          IF r = r_id THEN decode_resource_id(r_id) ELSE decoded[r]]
        /\ UNCHANGED resource_ids
        /\ CodecFrame

NextResourceId ==
    \/ EncodeResourceId
    \/ DecodeResourceId

SpecResourceId == InitResourceId /\ [][NextResourceId]_vars

----------------------------------------------------------------------------
(* The leaf cache: the deposit handler of the EVM anchor watcher (lines     *)
(* 129-143 of anchor_oracle_watcher.rs) and handle_event of                 *)
(* SubstrateVAnchorLeavesWatcher, each fed by its event watcher with the    *)
(* events of its chain in block order; a handler that fails is retried on   *)
(* the same event, and a restart replays the events from the start of an    *)
(* earlier block.  A leaf's commitment is named by its position in the      *)
(* on-chain tree.  The two watchers are separate tasks that write under     *)
(* different store keys; a behaviour follows one of them.                   *)

LeafCounts == {1, 2}
BlockShapes == {<<a>> : a \in LeafCounts} \cup {<<a, b>> : a, b \in LeafCounts}

Commitment(n) == <<"leaf", n>>

LastBlock(log) == IF log = <<>> THEN 0 ELSE log[Len(log)].block_number

\* A block of the EVM source chain with cnt deposits into the anchor: each
\* Deposit event carries the index of its leaf.
EvmBlockEvents(first, block_number, cnt) ==
    [i \in 1..cnt |-> [kind |-> "Deposit", leaf_index |-> first + i - 1,
                       commitment |-> Commitment(first + i - 1),
                       block_number |-> block_number]]

EvmNewBlock ==
    \E cnt \in LeafCounts :
        /\ scan.watcher = "evm"
        /\ LastBlock(evmLog) < MaxChainBlocks
        /\ evmLog' = evmLog \o EvmBlockEvents(Len(evmLog), LastBlock(evmLog) + 1, cnt)
        /\ UNCHANGED <<subLog, scan, leaves, last_deposit_block>>
        /\ UNCHANGED <<bridgeVars, config, next_index, oracle, sent, codecVars, runs,
                       pollVars, serviceVars>>

\* The Substrate source chain: one tree, Transaction events with their leafs.
TreeId == 9
SubstrateChainId == 1080
\* ResourceId::new(target system of the pallet and the tree, typed chain id),
\* written as a store key like the EVM one: chain id, then the target.
SubstrateKey == <<U256From(SubstrateChainId), "VAnchorHandlerBn254/tree">>

RECURSIVE LeafTotal(_)
LeafTotal(log) ==
    IF log = <<>> THEN 0 ELSE Len(Head(log).leafs) + LeafTotal(Tail(log))

Transaction(first, block_number, cnt) ==
    [tree_id |-> TreeId, leafs |-> [i \in 1..cnt |-> Commitment(first + i - 1)],
     block_number |-> block_number]

SubstrateNewBlock ==
    \E shape \in BlockShapes :
        LET n == LeafTotal(subLog)
            b == LastBlock(subLog) + 1
        IN /\ scan.watcher = "sub"
           /\ LastBlock(subLog) < MaxChainBlocks
           /\ subLog' = subLog \o
                 (IF Len(shape) = 1
                     THEN <<Transaction(n, b, shape[1])>>
                     ELSE <<Transaction(n, b, shape[1]),
                            Transaction(n + shape[1], b, shape[2])>>)
           /\ UNCHANGED <<evmLog, scan, leaves, last_deposit_block>>
           /\ UNCHANGED <<bridgeVars, config, next_index, oracle, sent, codecVars, runs,
                       pollVars, serviceVars>>

\* merkle_tree_bn254().next_leaf_index(tree_id) read at the hash of a block:
\* the number of leaves of the tree after the whole block.
next_leaf_index_at_Latest(block_number) == LeafTotal(subLog)

next_leaf_index_at(block_number) ==
    LeafTotal(SelectSeq(subLog, LAMBDA t : t.block_number <= block_number))

\* The events a replayed window can start at: the first of a block.
WindowStarts(log) ==
    {p \in 0..(Len(log) - 1) : p = 0 \/ log[p].block_number < log[p + 1].block_number}

LeafFrame == UNCHANGED <<bridgeVars, config, next_index, oracle, sent, codecVars, runs,
                       pollVars, serviceVars>>

\* The deposit handler on the next event of the EVM log.  Its store writes
\* are those of lines 130-143; out = "err_later" is a failure of the rest of
\* the handler (get_chainid, get_last_root, the signaling), which writes
\* nothing to the leaf cache.
EvmLeafHandle ==
    \E out \in {"ok", "err_get_chainid", "err_later"} :
        /\ scan.watcher = "evm"
        /\ scan.evm < Len(evmLog)
        /\ LET event == evmLog[scan.evm + 1]
           IN /\ leaves' = CacheDepositLeaves(event, out)
              /\ last_deposit_block' = CacheDepositBlock(event, out)
              /\ scan' = IF out = "ok" /\ ~CacheDepositRejected(event, out)
                            THEN [scan EXCEPT !.evm = @ + 1,
                                              !.evm_hi = IF @ > scan.evm THEN @ ELSE @ + 1,
                                              !.evm_redone = @ \/ scan.evm < scan.evm_hi]
                            ELSE scan
        /\ UNCHANGED <<evmLog, subLog>>
        /\ LeafFrame

\* Lines 94-103: the leafs of the event are stored one after the other; the
\* first rejected insert ends the handler with an error.
RECURSIVE StoreLeafs(_, _, _, _, _)
StoreLeafs(tbl, ldb, leafs, leaf_index, block_number) ==
    IF leafs = <<>> THEN [leaves |-> tbl, last_deposit_block |-> ldb, ok |-> TRUE]
    ELSE IF insert_leaves_rejects(tbl, SubstrateKey, leaf_index, Head(leafs))
         THEN [leaves |-> tbl, last_deposit_block |-> ldb, ok |-> FALSE]
    ELSE StoreLeafs(insert_leaves(tbl, SubstrateKey, leaf_index, Head(leafs)),
                    insert_last_deposit_block_number(ldb, SubstrateKey, block_number),
                    Tail(leafs), leaf_index + 1, block_number)

\* Where the first leaf of the event is stored when the tree has
\* next_leaf_index leaves (line 92).
FirstLeafIndex(next_leaf_index, event) ==
    saturating_sub(next_leaf_index, Len(event.leafs))

\* SubstrateVAnchorLeavesWatcher::handle_event on the next event of the log;
\* out = "err_fetch" is a failure of a storage or metadata read (lines 57-83).
SubstrateLeafHandle ==
    \E out \in {"ok", "err_fetch"} :
        /\ scan.watcher = "sub"
        /\ scan.sub < Len(subLog)
        /\ LET event == subLog[scan.sub + 1]
               next_leaf_index == next_leaf_index_at(event.block_number)
               leaf_index == FirstLeafIndex(next_leaf_index, event)
               stored == StoreLeafs(leaves, last_deposit_block, event.leafs,
                                    leaf_index, event.block_number)
           IN IF out = "ok"
                 THEN /\ leaves' = stored.leaves
                      /\ last_deposit_block' = stored.last_deposit_block
                      /\ scan' = IF stored.ok
                                    THEN [scan EXCEPT !.sub = @ + 1,
                                              !.sub_hi = IF @ > scan.sub THEN @ ELSE @ + 1,
                                              !.sub_redone = @ \/ scan.sub < scan.sub_hi]
                                    ELSE scan
                 ELSE UNCHANGED <<leaves, last_deposit_block, scan>>
        /\ UNCHANGED <<evmLog, subLog>>
        /\ LeafFrame

\* A restart before the cursor was saved: the watcher scans again from the
\* start of a block it has already handled.
EvmReplay ==
    \E p \in WindowStarts(evmLog) :
        /\ p < scan.evm
        /\ scan' = [scan EXCEPT !.evm = p]
        /\ UNCHANGED <<evmLog, subLog, leaves, last_deposit_block>>
        /\ LeafFrame

SubstrateReplay ==
    \E p \in WindowStarts(subLog) :
        /\ p < scan.sub
        /\ scan' = [scan EXCEPT !.sub = p]
        /\ UNCHANGED <<evmLog, subLog, leaves, last_deposit_block>>
        /\ LeafFrame

NextLeaves ==
    \/ EvmNewBlock
    \/ SubstrateNewBlock
    \/ EvmLeafHandle
    \/ SubstrateLeafHandle
    \/ EvmReplay
    \/ SubstrateReplay

InitLeaves ==
    /\ InitBridge
    /\ config = [linked_anchors |-> <<"b", "c">>, evm |-> DestChains,
                 smart_anchor_updates |-> FALSE, smart_anchor_updates_retries |-> 0]
    /\ next_index = [c \in DestChains |-> 0]
    /\ leaves = {}
    /\ last_deposit_block = <<>>
    /\ oracle = IdleOracle
    /\ sent = <<>>
    /\ resource_ids = <<>>
    /\ decoded = <<>>
    /\ runs = <<>>
    /\ head = DeployedAt
    /\ poll = NoPoll
    /\ InitService
    /\ evmLog = <<>>
    /\ subLog = <<>>
    /\ scan \in {[NoScan EXCEPT !.watcher = w] : w \in {"evm", "sub"}}

SpecLeaves == InitLeaves /\ [][NextLeaves]_vars

----------------------------------------------------------------------------
(* Scans of the same deposit from a fresh store, one after the other, while *)
(* the chains go on: each scan handles the CreateProposal command of the    *)
(* deposit (with the root the source anchor reports when it is handled),    *)
(* and what it ends with is kept for comparison.                            *)

\* The Vote entries of the queue: key and payload.
VoteIntentsIn(q) ==
    {[chain_id |-> e.chain_id, key |-> e.key, tx |-> e.tx] :
        e \in {x \in DOMAIN q : x.key[1] = VoteLabel}}

\* The command of the deposit has been handled in this scan: its Vote tx is
\* queued, or create_proposal has just skipped it on the bridge's status.
DepositScanned ==
    \/ VoteIntentsIn(queue) # {}
    \/ last.op = "create_proposal" /\ last.path = "skip_status"

\* The scan is over; the next one starts on an empty store.
FreshStoreScan ==
    /\ Len(runs) < MaxRuns
    /\ DepositScanned
    /\ runs' = Append(runs, [leaves |-> leaves, intents |-> VoteIntentsIn(queue)])
    /\ proposals' = <<>>
    /\ queue' = <<>>
    /\ leaves' = {}
    /\ last_deposit_block' = <<>>
    /\ voteIntents' = [h \in ChainHashes |-> 0]
    /\ handled' = {}
    /\ last' = NoCall
    /\ UNCHANGED <<onchain, events, blockNumber, lastRoot>>
    /\ UNCHANGED <<config, next_index, oracle, sent, codecVars, leafVars, pollVars,
                   serviceVars>>

NextReplay ==
    \/ HandleCmd
    \/ ChainTransition
    \/ SourceRootAdvance
    \/ FreshStoreScan

SpecReplay == Init /\ [][NextReplay]_vars

----------------------------------------------------------------------------
(* ProposalWatcher: run() retries watch() with exponential backoff and no   *)
(* time limit; watch() connects and calls poll_for_proposals, which fetches *)
(* the ProposalEvents from `block` to the current block number in a loop.   *)
(* out names the await that fails; every failure but a malformed endpoint   *)
(* is retried.                                                              *)

PollFrame ==
    UNCHANGED <<bridgeVars, config, next_index, leaves, last_deposit_block,
                oracle, sent, codecVars, leafVars, runs, serviceVars>>

ChainAdvance ==
    /\ head < MaxHead
    /\ head' = head + 1
    /\ UNCHANGED poll
    /\ PollFrame

\* Line 33, had the field been left at the library's default: a limit on the
\* elapsed time.
max_elapsed_time_Default == [some |-> TRUE, val |-> 0]

\* Line 33: max_elapsed_time: None.
max_elapsed_time == [some |-> FALSE, val |-> 0]

\* The backoff of lines 32-37 after a transient error: the next delay, or
\* None once the elapsed time has passed max_elapsed_time.
next_backoff(elapsed) ==
    IF max_elapsed_time.some /\ elapsed > max_elapsed_time.val THEN "None" ELSE "Some"

\* Errors converted by `?` (lines 49, 53, 59, 63, 67) are transient; the one of
\* line 45 is Permanent.
TransientErrs == {"connect", "get_block_number", "query"}

\* retry (line 37) on an error of watch(): a Permanent error, or a transient
\* one when the backoff has run out, ends run with Err; otherwise the delay is
\* slept and watch() is called again. elapsed counts the delays slept, up to
\* MaxElapsed.
Failed(p, err) ==
    IF err \notin TransientErrs \/ next_backoff(p.elapsed) = "None"
        THEN [p EXCEPT !.pc = "stopped", !.err = err, !.returned = "Err"]
        ELSE [p EXCEPT !.pc = "down", !.err = err,
                       !.elapsed = IF @ < MaxElapsed THEN @ + 1 ELSE @]

\* Lines 41-59: parse the endpoint, connect, read the block number into
\* `block`.
WatchStart(out) ==
    /\ poll.pc = "down"
    /\ poll' = IF out = "ok"
                  THEN [poll EXCEPT !.pc = "loop", !.started = TRUE, !.block = head,
                                    !.windows = <<>>, !.err = "none"]
                  ELSE Failed(poll, out)
    /\ UNCHANGED head
    /\ PollFrame

\* Line 63: current_block_number.
PollBlockNumber(out) ==
    /\ poll.pc = "loop"
    /\ Len(poll.windows) < MaxFetches
    /\ poll' = IF out = "ok"
                  THEN [poll EXCEPT !.pc = "fetch", !.current = head]
                  ELSE Failed(poll, "get_block_number")
    /\ UNCHANGED head
    /\ PollFrame

\* The first block of the range the query asks for (line 65).
from_block(block) == block

\* Lines 64-77: the query from `block` to current_block_number, then
\* `block = current_block_number` and the sleep of 30 s.
PollFetch(out) ==
    /\ poll.pc = "fetch"
    /\ poll' = IF out = "ok"
                  THEN [poll EXCEPT
                          !.pc = "loop",
                          !.windows = Append(@, <<from_block(poll.block), poll.current>>),
                          !.covered = @ \cup (from_block(poll.block)..poll.current),
                          !.block = poll.current]
                  ELSE Failed(poll, "query")
    /\ UNCHANGED head
    /\ PollFrame

NextPoll ==
    \/ ChainAdvance
    \/ \E out \in {"ok", "url_parse", "connect", "get_block_number"} :
          WatchStart(out)
    \/ \E out \in {"ok", "err"} : PollBlockNumber(out)
    \/ \E out \in {"ok", "err"} : PollFetch(out)

SpecPoll == Init /\ [][NextPoll]_vars

----------------------------------------------------------------------------
(* Shutdown.  The light-client service's main waits in a select! for       *)
(* SIGINT, SIGTERM, SIGQUIT or the end of the web server and then calls    *)
(* ctx.shutdown(); each watcher task of the relayer's main races           *)
(* watcher.run() against ctrl_c().  A task that loses the race is dropped  *)
(* at the await it is suspended in.                                        *)

ShutdownSignals == {"SIGINT", "SIGTERM", "SIGQUIT", "server_stopped"}

ServiceFrame ==
    UNCHANGED <<config, next_index, leaves, last_deposit_block, oracle, sent,
                codecVars, leafVars, runs>>

\* One of the four branches of main's select! becomes ready (a later signal
\* finds main gone).
SignalFires(sig) ==
    /\ shutdown.signal = "none"
    /\ shutdown' = [shutdown EXCEPT !.signal = sig]
    /\ UNCHANGED <<bridgeVars, pollVars, ignite, inflight, relay>>
    /\ ServiceFrame

\* The branch runs the shutdown closure: ctx.shutdown(), then main returns.
MainShutdown ==
    /\ shutdown.main = "select"
    /\ shutdown.signal # "none"
    /\ shutdown' = [shutdown EXCEPT !.main = "exited", !.broadcasts = @ + 1]
    /\ UNCHANGED <<bridgeVars, pollVars, ignite, inflight, relay>>
    /\ ServiceFrame

\* select! { _ = watcher.run() => .., _ = ctrl_c() => .. } of a leaves or
\* proposal watcher task: ctrl_c wins and the run future is dropped.  The
\* ProposalWatcher has no store; the leaves watcher is between two events.
WatcherTaskStops(t) ==
    /\ t \in {"leaves", "proposal"}
    /\ shutdown.tasks[t] = "running"
    /\ shutdown.signal = "SIGINT"
    /\ shutdown' = [shutdown EXCEPT !.tasks[t] = "stopped"]
    /\ poll' = IF t = "proposal" THEN [poll EXCEPT !.pc = "stopped"] ELSE poll
    /\ UNCHANGED <<bridgeVars, head, ignite, inflight, relay>>
    /\ ServiceFrame

\* The awaits of handle_event on e, and of the task between two events.
SuspensionPoints(e) ==
    CASE handle_event_arm(e) = "remove_proposal" -> {"idle", "get_chainid"}
      [] handle_event_arm(e) = "execute_proposal" ->
            {"idle", "get_chainid"}
               \cup (IF e.data_hash \in DOMAIN proposals
                        THEN {"get_proposal"} ELSE {})
               \cup (IF ExecutePath(e.data_hash, "err_get_block_number") = "err"
                        THEN {"get_block_number"} ELSE {})
      [] OTHER -> {"idle"}

\* The proposals table when handle_event on e is suspended at the point:
\* execute_proposal has taken the entity out before it awaits get_proposal.
ProposalsAt(e, point) ==
    IF handle_event_arm(e) = "execute_proposal"
            /\ point \in {"get_proposal", "get_block_number"}
        THEN remove_proposal_from(proposals, e.data_hash)
        ELSE proposals

\* The bridge watcher task loses the race against the broadcast while its
\* handler is suspended at the point: the handler is dropped there.
BridgeDrop(e, point) ==
    /\ shutdown.tasks["bridge"] = "running"
    /\ shutdown.broadcasts >= 1
    /\ point \in SuspensionPoints(e)
    /\ proposals' = ProposalsAt(e, point)
    /\ shutdown' = [shutdown EXCEPT !.tasks["bridge"] = "stopped"]
    /\ last' = NoCall
    /\ UNCHANGED <<queue, onchain, events, blockNumber, lastRoot, voteIntents, handled>>
    /\ UNCHANGED <<pollVars, ignite, inflight, relay>>
    /\ ServiceFrame

BridgeTaskRuns == shutdown.tasks["bridge"] = "running"

NextShutdown ==
    \/ BridgeTaskRuns /\ HandleCmd
    \/ BridgeTaskRuns /\ HandleEventExecute
    \/ BridgeTaskRuns /\ HandleEventRemove
    \/ ChainTransition
    \/ \E sig \in ShutdownSignals : SignalFires(sig)
    \/ MainShutdown
    \/ \E t \in {"leaves", "proposal"} : WatcherTaskStops(t)
    \/ \E e \in events, point \in {"idle", "get_chainid", "get_proposal",
                                     "get_block_number"} : BridgeDrop(e, point)

SpecShutdown == Init /\ [][NextShutdown]_vars

----------------------------------------------------------------------------
(* create_proposal step by step.  The command task and the event task run  *)
(* side by side: a create_proposal call is suspended in get_proposal and   *)
(* resumes with the status it was given, whatever the event task and the   *)
(* bridge have done since.                                                 *)

RaceFrame ==
    /\ UNCHANGED <<pollVars, shutdown, ignite, relay>>
    /\ ServiceFrame

\* Lines 231-277: up to the answer of get_proposal.
CreateRead(data) ==
    LET entity == ProposalEntityOf(data, DestChainId)
    IN /\ data.merkle_root = lastRoot
       /\ ~HandlerMismatch(data)
       /\ Cardinality(inflight) < MaxInflight
       /\ inflight' = inflight \cup
              {[data |-> data,
                status |-> ProposalStatusFrom(
                    get_proposal(data.src_chain_id, data.leaf_index, entity.data_hash))]}
       /\ UNCHANGED bridgeVars
       /\ RaceFrame

\* Lines 278-312 of a suspended call: the status check, the queue check, the
\* enqueue and the insert.
CreateFinish(c) ==
    LET entity == ProposalEntityOf(c.data, DestChainId)
        call == VoteProposalCall(entity)
        key == SledQueueKey(DestChainId, make_vote_proposal_key(entity.data_hash))
        path == IF c.status >= Passed THEN "skip_status"
                ELSE IF has_item(queue, key) THEN "skip_queued"
                ELSE "vote"
    IN /\ c \in inflight
       /\ path = "vote" => IntentsOf(<<c.data.src_chain_id, c.data.leaf_index>>) < MaxIntents
       /\ inflight' = inflight \ {c}
       /\ queue' = IF path = "vote" THEN enqueue_item(queue, key, call.tx) ELSE queue
       /\ proposals' = IF path = "vote" THEN insert_proposal(proposals, entity) ELSE proposals
       /\ voteIntents' = IF path = "vote"
                            THEN [voteIntents EXCEPT ![entity.data_hash] = @ + 1]
                            ELSE voteIntents
       /\ last' = NoCall
       /\ UNCHANGED <<onchain, events, blockNumber, lastRoot, handled>>
       /\ RaceFrame

NextRace ==
    \/ \E data \in ProposalData : CreateRead(data)
    \/ \E c \in inflight : CreateFinish(c)
    \/ HandleEventRemove
    \/ HandleEventExecute
    \/ ChainTransition

SpecRace == Init /\ [][NextRace]_vars

----------------------------------------------------------------------------
(* ignite of the light-client service: the loop over ctx.config.eth2.      *)
(* A string is a sequence of pieces; the piece Token is the literal text   *)
(* ETH1_INFURA_API_KEY.                                                     *)

Token == "ETH1_INFURA_API_KEY"

\* The eth1_endpoint strings of the configurations drawn.
Endpoints ==
    {<<"https://mainnet.infura.io/v3/", Token>>,
     <<"wss://", Token, "@host/", Token>>,
     <<"http://localhost:8545">>}

\* What ETH1_INFURA_API_KEY can be in the environment: unset, or a key.
EnvValues == {[set |-> FALSE, val |-> <<>>], [set |-> TRUE, val |-> <<"0123abcd">>]}

\* The chain configurations, in the order `values()` yields them.
ChainConfigs ==
    UNION {[1..n -> [enabled : BOOLEAN, eth1_endpoint : Endpoints]] : n \in 0..MaxChains}

\* str::replacen(from, to, 1): the first occurrence only.
replace_FirstOnly(str, from, to) ==
    LET first == {i \in 1..Len(str) : str[i] = from /\ \A j \in 1..(i - 1) : str[j] # from}
        RECURSIVE Cat(_)
        Cat(i) == IF i > Len(str) THEN <<>>
                  ELSE (IF i \in first THEN to ELSE <<str[i]>>) \o Cat(i + 1)
    IN Cat(1)

\* str::replace(from, to): every occurrence of the piece, left to right.
replace(str, from, to) ==
    LET RECURSIVE Cat(_)
        Cat(i) == IF i > Len(str) THEN <<>>
                  ELSE (IF str[i] = from THEN to ELSE <<str[i]>>) \o Cat(i + 1)
    IN Cat(1)

InitIgnite ==
    /\ InitBridge
    /\ config = [linked_anchors |-> <<"b", "c">>, evm |-> DestChains,
                 smart_anchor_updates |-> FALSE, smart_anchor_updates_retries |-> 0]
    /\ next_index = [c \in DestChains |-> 0]
    /\ leaves = {}
    /\ last_deposit_block = <<>>
    /\ oracle = IdleOracle
    /\ sent = <<>>
    /\ resource_ids = <<>>
    /\ decoded = <<>>
    /\ evmLog = <<>>
    /\ subLog = <<>>
    /\ scan = NoScan
    /\ runs = <<>>
    /\ head = DeployedAt
    /\ poll = NoPoll
    /\ shutdown = NoShutdown
    /\ inflight = {}
    /\ relay = NoRelay
    /\ \E chains \in ChainConfigs, env \in EnvValues :
          ignite = [NoIgnite EXCEPT !.chains = chains, !.env = env]

IgniteFrame ==
    /\ UNCHANGED <<bridgeVars, pollVars, shutdown, inflight, relay>>
    /\ ServiceFrame

\* Lines 31-33: a chain that is not enabled is passed over.
IgniteSkip ==
    /\ ignite.result = "none"
    /\ ignite.i <= Len(ignite.chains)
    /\ ~ignite.chains[ignite.i].enabled
    /\ ignite' = [ignite EXCEPT !.i = @ + 1]
    /\ IgniteFrame

\* Lines 35-50 for an enabled chain: the variable is read (an error if it is
\* not set), substituted into eth1_endpoint, and the service is started.
IgniteChain(out) ==
    /\ ignite.result = "none"
    /\ ignite.i <= Len(ignite.chains)
    /\ ignite.chains[ignite.i].enabled
    /\ ignite' =
          IF ~ignite.env.set
              THEN [ignite EXCEPT !.result = "Err_env"]
          ELSE IF out = "err_start"
              THEN [ignite EXCEPT !.result = "Err_start"]
          ELSE [ignite EXCEPT
                  !.started = Append(@, [chain |-> ignite.i,
                                         eth1_endpoint |->
                                             replace(ignite.chains[ignite.i].eth1_endpoint,
                                                     Token, ignite.env.val)]),
                  !.i = @ + 1]
    /\ IgniteFrame

\* Line 52: the loop is over.
IgniteReturn ==
    /\ ignite.result = "none"
    /\ ignite.i > Len(ignite.chains)
    /\ ignite' = [ignite EXCEPT !.result = "Ok"]
    /\ IgniteFrame

NextIgnite ==
    \/ IgniteSkip
    \/ \E out \in {"ok", "err_start"} : IgniteChain(out)
    \/ IgniteReturn

SpecIgnite == InitIgnite /\ [][NextIgnite]_vars

----------------------------------------------------------------------------
(* handle_substrate_anchor_relay_tx: the client and the wallet are built,   *)
(* the withdraw extrinsic is submitted, and the handler answers on the      *)
(* command stream for every status of the transaction it takes from the     *)
(* status stream.                                                           *)

RelayFrame ==
    /\ UNCHANGED <<bridgeVars, pollVars, shutdown, ignite, inflight>>
    /\ ServiceFrame

\* stream.send(response)
send(r, response) == [r EXCEPT !.responses = Append(@, response)]

\* Lines 62-73: the Substrate client of the requested chain.
RelayClient(out) ==
    /\ relay.pc = "start"
    /\ relay' = IF out = "err" THEN [send(relay, "Error") EXCEPT !.pc = "returned"]
                  ELSE [relay EXCEPT !.pc = "wallet"]
    /\ RelayFrame

\* Lines 76-85: the wallet of the chain.
RelayWallet(out) ==
    /\ relay.pc = "wallet"
    /\ relay' = IF out = "err" THEN [send(relay, "Error") EXCEPT !.pc = "returned"]
                  ELSE [relay EXCEPT !.pc = "submit"]
    /\ RelayFrame

\* Lines 89-112: sign_and_submit_then_watch.
RelaySubmit(out) ==
    /\ relay.pc = "submit"
    /\ relay' = IF out = "err" THEN [send(relay, "Error") EXCEPT !.pc = "returned"]
                  ELSE [relay EXCEPT !.pc = "watch"]
    /\ RelayFrame

\* What event_stream.next() can give: an error of the stream, its end, or a
\* TransactionStatus; a Finalized status comes with the outcome of
\* wait_for_success().
StreamItems ==
    {"stream_err", "stream_end", "Future", "Ready", "Broadcast", "InBlock",
     "Retracted", "FinalityTimeout", "Finalized_success", "Finalized_failed",
     "Usurped", "Dropped", "Invalid"}

\* Lines 125-184: the match on the status.
RelayResponses(r, item) ==
    CASE item = "Broadcast" -> send(r, "Withdraw_Sent")
      [] item = "InBlock" -> send(r, "Withdraw_Submitted")
      [] item = "Finalized_success" -> send(r, "Withdraw_Finalized")
      [] item = "Finalized_failed" -> send(send(r, "Error"), "Withdraw_Finalized")
      [] item = "Dropped" -> send(r, "Withdraw_DroppedFromMemPool")
      [] item = "Invalid" -> send(r, "Withdraw_Errored")
      [] OTHER -> r

\* Lines 115-185: one round of the loop.
RelayStatus(item) ==
    /\ relay.pc = "watch"
    /\ relay.polled < MaxStatuses
    /\ relay' =
          IF item = "stream_err"
             THEN [send(relay, "Error") EXCEPT !.pc = "returned", !.polled = @ + 1]
          ELSE IF item = "stream_end"
             THEN [relay EXCEPT !.pc = "returned", !.polled = @ + 1]
          ELSE [RelayResponses(relay, item) EXCEPT !.polled = @ + 1]
    /\ RelayFrame

NextRelay ==
    \/ \E out \in {"ok", "err"} : RelayClient(out)
    \/ \E out \in {"ok", "err"} : RelayWallet(out)
    \/ \E out \in {"ok", "err"} : RelaySubmit(out)
    \/ \E item \in StreamItems : RelayStatus(item)

SpecRelay == Init /\ [][NextRelay]_vars

----------------------------------------------------------------------------

Next ==
    \/ HandleCmd
    \/ HandleEventRemove
    \/ HandleEventExecute
    \/ HandleEventOther
    \/ TxQueueRun
    \/ ChainTransition
    \/ SourceRootAdvance

Spec == Init /\ [][Next]_vars

\* The relayer against a bridge that can also report an unlisted status byte,
\* for the proposals of one root of the source anchor.
NextStatus ==
    \/ HandleCmd
    \/ HandleEventRemove
    \/ HandleEventExecute
    \/ HandleEventOther
    \/ TxQueueRun
    \/ ChainTransition
    \/ ChainTransitionUnlisted

SpecStatus == Init /\ [][NextStatus]_vars

----------------------------------------------------------------------------
(* Properties *)

VoteKey(h) == SledQueueKey(DestChainId, make_vote_proposal_key(h))
ExecuteKey(h) == SledQueueKey(DestChainId, make_execute_proposal_key(h))

IsFinal(e) == ProposalStatusFrom(e.status) \in {Executed, Cancelled}
IsPassed(e) == ProposalStatusFrom(e.status) = Passed

\* C1: for every source deposit (src_chain_id, nonce) at most one Vote tx is
\* ever enqueued on the destination chain, over every sequence of commands,
\* retries and replays.
C1_AtMostOneVoteIntent ==
    \A dep \in Deposits : IntentsOf(dep) <= 1

\* C2: at every moment the queue holds at most one tx under each key
\* (chain_id, label, data_hash); an entry that exists is never duplicated.
C2_OneQueuedTxPerKey ==
    \A e \in DOMAIN queue :
        ItemCount(queue, SledQueueKey(e.chain_id, e.key)) <= 1

\* create_proposal was replayed while its Vote tx was still queued and
\* returned without enqueueing.
C2_Witness ==
    /\ last = Call("create_proposal", "skip_queued", FALSE)
    /\ \E h \in ChainHashes : ItemCount(queue, VoteKey(h)) = 1

\* C3: an entity leaves the proposals table only in the handling of an
\* Executed or Cancelled event (remove_proposal), never in another step.
C3_EntityRemovedOnlyWhenFinal ==
    [][\A h \in DOMAIN proposals :
          h \notin DOMAIN proposals'
             => \E e \in events, out \in RemoveOuts :
                   IsFinal(e) /\ e.data_hash = h /\ remove_proposal(e, out)]_vars

\* C4: in every state a create_proposal call returns in, the replay of a
\* command cut by a crash included, a Vote tx for h is queued only if the
\* entity of h is stored, and an entity is stored only if a Vote tx for it
\* has been enqueued.
C4_EntityIffVote ==
    [][(\E data \in ProposalData : create_proposal(data, "ok"))
          => \A h \in ChainHashes :
                /\ has_item(queue', VoteKey(h)) => h \in DOMAIN proposals'
                /\ h \in DOMAIN proposals' => voteIntents'[h] > 0]_vars

\* C5: a handling of a Passed event that fails with an RPC error leaves the
\* proposals table and the queue as they were.
C5_FailedExecuteLeavesStore ==
    [][\A e \in events :
          \A out \in {"err_get_chainid", "err_get_proposal", "err_get_block_number"} :
             (IsPassed(e) /\ execute_proposal(e, out))
                => UNCHANGED <<proposals, queue>>]_vars

\* C6: once a Passed event for h has been handled no Vote tx for h is
\* enqueued any more, and once an Executed or Cancelled event for h has been
\* handled no entity, Vote tx or Execute tx for h is created any more.
C6_LifecycleOnlyForward ==
    [][\A h \in ChainHashes :
          /\ (\E e \in handled : e.data_hash = h)
                => voteIntents'[h] = voteIntents[h]
          /\ (\E e \in handled : e.data_hash = h /\ IsFinal(e))
                => /\ h \in DOMAIN proposals' => h \in DOMAIN proposals
                   /\ ItemCount(queue', VoteKey(h)) <= ItemCount(queue, VoteKey(h))
                   /\ ItemCount(queue', ExecuteKey(h)) <= ItemCount(queue, ExecuteKey(h))]_vars

\* A deposit command was handled after the events of every proposal that is
\* Passed or beyond on the bridge had been handled, and it was skipped.
C6_Witness ==
    /\ last = Call("create_proposal", "skip_status", FALSE)
    /\ \E h \in ChainHashes : onchain[h] >= Passed
    /\ \A h \in ChainHashes :
          onchain[h] >= Passed => \E e \in handled : e.data_hash = h

\* C7: handling a Passed event for a stored entity whose on-chain status is
\* Passed enqueues, under the execute key of the hash, a tx that carries the
\* gate min_block = block number read + 1.
C7_ExecuteCarriesMinBlock ==
    [][\A e \in events :
          (IsPassed(e) /\ ExecutePath(e.data_hash, "ok") = "execute"
                /\ execute_proposal(e, "ok"))
             => \E x \in DOMAIN queue' :
                   /\ x.chain_id = DestChainId
                   /\ x.key = make_execute_proposal_key(e.data_hash)
                   /\ "min_block" \in DOMAIN x.tx
                   /\ x.tx.min_block = blockNumber + 1]_vars

\* C8: handling a Passed event for a hash with no stored entity leaves the
\* proposals table and the queue unchanged, and returns Ok once the chain id
\* has been read.
C8_PassedWithoutEntitySkips ==
    [][\A e \in events : \A out \in ExecuteOuts :
          (IsPassed(e) /\ e.data_hash \notin DOMAIN proposals
                /\ execute_proposal(e, out))
             => /\ UNCHANGED <<proposals, queue>>
                /\ out = "ok" => e \in handled']_vars

\* A Passed event was handled for a hash the relayer never voted for, so
\* that the store held no entity of it.
C8_Witness ==
    \E e \in handled : IsPassed(e) /\ voteIntents[e.data_hash] = 0

\* C9: after an Executed or Cancelled event for h has been handled, the store
\* holds no entity of h, no Vote entry and no Execute entry of h.
C9_FinalEventClearsStore ==
    [][\A e \in events :
          (IsFinal(e) /\ remove_proposal(e, "ok"))
             => /\ e.data_hash \notin DOMAIN proposals'
                /\ ~has_item(queue', VoteKey(e.data_hash))
                /\ ~has_item(queue', ExecuteKey(e.data_hash))]_vars

\* An Executed or Cancelled event was handled for a proposal the relayer had
\* voted for and whose Passed event it had handled before.
C9_Witness ==
    \E e \in handled :
        /\ IsFinal(e)
        /\ voteIntents[e.data_hash] > 0
        /\ ProposalEvent(Passed, e.data_hash) \in handled

\* C10: handling an Executed or Cancelled event that has been handled before
\* returns Ok and leaves the proposals table and the queue as they are.
C10_FinalEventIdempotent ==
    [][\A e \in events : \A out \in RemoveOuts :
          (IsFinal(e) /\ e \in handled /\ remove_proposal(e, out))
             => /\ UNCHANGED <<proposals, queue>>
                /\ out = "ok" => (last'.path = "removed" /\ last'.rep)]_vars

\* The same Executed or Cancelled event was handled a second time.
C10_Witness ==
    last = Call("remove_proposal", "removed", TRUE)

\* C11: a create_proposal call that reaches its guard (its RPCs succeed, the
\* handler address matches) enqueues one Vote tx and stores the entity exactly
\* when the status read is Inactive or Active and no Vote tx is queued under
\* the key; on any other status (Passed, Executed, Cancelled, Unknown) and
\* when a vote is queued, the proposals table and the queue stay as they are.
C11_PreVoteGuard ==
    [][\A data \in ProposalData :
          (data.anchor_handler_address = DestHandler /\ create_proposal(data, "ok"))
             => LET entity == ProposalEntityOf(data, DestChainId)
                    h == entity.data_hash
                    status == ProposalStatusFrom(onchain[h])
                IN IF status \in {Inactive, Active} /\ ~has_item(queue, VoteKey(h))
                      THEN /\ ItemCount(queue', VoteKey(h)) = 1
                           /\ queue' = enqueue_item(queue, VoteKey(h),
                                                    VoteProposalCall(entity).tx)
                           /\ proposals' = insert_proposal(proposals, entity)
                      ELSE UNCHANGED <<proposals, queue>>]_vars

\* A Vote tx was enqueued for a proposal that was already Active on the bridge.
C11_Witness ==
    /\ last = Call("create_proposal", "vote_active", FALSE)
    /\ \E h \in ChainHashes :
          onchain[h] = Active /\ has_item(queue, VoteKey(h)) /\ h \in DOMAIN proposals

\* C12: when a Passed event is handled and get_proposal reports Executed,
\* Cancelled or Unknown, no Execute tx is enqueued: the queue stays as it is.
C12_PreExecuteGuard ==
    [][\A e \in events : \A out \in ExecuteOuts :
          (/\ IsPassed(e)
           /\ ProposalStatusFrom(onchain[e.data_hash]) \in {Executed, Cancelled, Unknown}
           /\ execute_proposal(e, out))
             => UNCHANGED queue]_vars

\* The Passed event of a stored proposal was handled when the bridge reported
\* an unlisted status for it, and the execution was skipped on that status.
C12_Witness ==
    /\ last.op = "execute_proposal"
    /\ last.path = "skip_status"
    /\ \E h \in ChainHashes :
          /\ ProposalStatusFrom(onchain[h]) = Unknown
          /\ ProposalEvent(Passed, h) \in handled
          /\ \A g \in ChainHashes \ {h} : onchain[g] = Inactive

\* The calls the deposit handler has made on destination bridges.
SentCalls == {sent[i] : i \in 1..Len(sent)}

\* Queue entries of a destination chain that hold a Vote tx.
VoteEntriesFor(q, chain_id) ==
    {e \in DOMAIN q : e.chain_id = chain_id /\ e.key[1] = VoteLabel}

SmartUpdates ==
    config.smart_anchor_updates /\ config.smart_anchor_updates_retries >= 1

\* C13: no step of the signaler calls a contract of the destination chain
\* itself; what it does for a destination is an entry in the tx queue.
C13_SignalerOnlyEnqueues ==
    [][sent' = sent]_vars

\* C14: with smart updates on, no proposal is issued for a destination that
\* had caught up (leaf_index < next_index - 1) by the end of the last delay.
C14_CaughtUpDestinationSkipped ==
    \A call \in SentCalls :
        SmartUpdates => ~(call.data.leaf_index < saturating_sub(call.woke, 1))

\* C15: with smart updates on and N retries, when next_index of the
\* destination has not changed since the first check, the proposal is issued
\* after N delays of 10 s and one Vote tx for the destination is enqueued.
C15_VoteEnqueuedAfterRetries ==
    [][(/\ SmartUpdates
        /\ oracle.phase = "issue"
        /\ next_index[CurrentChain] = oracle.first
        /\ OracleIssue("ok"))
          => /\ oracle.slept = 10 * config.smart_anchor_updates_retries
             /\ Cardinality(VoteEntriesFor(queue', ChainIdOf(CurrentChain)))
                   = Cardinality(VoteEntriesFor(queue, ChainIdOf(CurrentChain))) + 1]_vars

\* C16: a linked anchor whose chain is not configured is passed over without
\* an error and without any other effect, and a handler run that returns Ok
\* has visited every linked anchor: the configured ones were signaled or
\* skipped by the smart-update gate.
C16_MissingChainSkipped ==
    [][/\ (/\ oracle.phase = "anchor"
            /\ ~AnchorsDone
            /\ CurrentChain \notin config.evm
            /\ \E out \in {"ok", "err"} : OracleAnchor(out))
              => /\ oracle' = [oracle EXCEPT !.outcomes = Append(@, "unconfigured")]
                 /\ UNCHANGED <<queue, proposals, leaves, last_deposit_block, sent>>
       /\ (oracle'.phase = "ok" /\ leaves' # {})
              => /\ Len(oracle'.outcomes) = Len(config'.linked_anchors)
                 /\ \A i \in 1..Len(config'.linked_anchors) :
                       IF config'.linked_anchors[i] \in config'.evm
                          THEN oracle'.outcomes[i] \in {"signaled", "skipped"}
                          ELSE oracle'.outcomes[i] = "unconfigured"]_vars

\* A deposit was handled to its Ok: a linked anchor with no configured chain
\* was passed over and a later one was signaled.
C16_Witness ==
    /\ oracle.phase = "ok"
    /\ \E i, j \in 1..Len(oracle.outcomes) :
          /\ i < j
          /\ oracle.outcomes[i] = "unconfigured"
          /\ oracle.outcomes[j] = "signaled"

\* C17: the nonce of the header of every proposal the relayer builds for an
\* EVM deposit is the leaf_index of the deposit.
C17_NonceIsLeafIndex ==
    /\ \A call \in SentCalls : call.header.nonce = call.data.leaf_index
    /\ \A h \in DOMAIN proposals : proposals[h].nonce = proposals[h].data[5].val

\* C18: every proposal payload the relayer builds is 80 bytes long, a header
\* of 40 bytes and an anchor-update part of 40 bytes.
C18_PayloadIs80Bytes ==
    /\ \A call \in SentCalls :
          /\ BytesLen(call.proposal_data) = 80
          /\ BytesLen(ProposalHeaderEncoded(call.header)) = 40
    /\ \A h \in DOMAIN proposals : BytesLen(proposals[h].data) = 80

\* C19: the hash under which a proposal is issued is
\* keccak256(handler_address || payload), in every signaling path.
C19_DataHashCoversHandler ==
    /\ \A call \in SentCalls :
          call.args[1] = keccak256(<<Field(20, call.data.anchor_handler_address)>>
                                      \o call.proposal_data)
    /\ \A h \in DOMAIN proposals :
          \E d \in ProposalData :
             proposals[h].data_hash
                = keccak256(<<Field(20, d.anchor_handler_address)>> \o proposals[h].data)

\* C20 as stated: every pair (address, chain id) given to encode_resource_id,
\* whatever the size of the chain id, gets a ResourceId that
\* decode_resource_id turns back into the pair.
C20_RoundTripEveryChainId ==
    \A input \in DOMAIN resource_ids :
        /\ ~resource_ids[input].panicked
        /\ resource_ids[input].r_id \in DOMAIN decoded
              => decoded[resource_ids[input].r_id] = input

\* C20: a pair whose chain id fits 32 bits gets a ResourceId that
\* decode_resource_id turns back into the pair; a pair whose chain id does
\* not fit gets no ResourceId (as_u32 panics); so two different pairs never
\* share a ResourceId.
C20_RoundTripU32ChainId ==
    /\ \A input \in DOMAIN resource_ids :
          IF input.chain_id.hi = 0
             THEN /\ ~resource_ids[input].panicked
                  /\ resource_ids[input].r_id \in DOMAIN decoded
                        => decoded[resource_ids[input].r_id] = input
             ELSE resource_ids[input].panicked
    /\ \A i, j \in DOMAIN resource_ids :
          (/\ ~resource_ids[i].panicked
           /\ ~resource_ids[j].panicked
           /\ resource_ids[i].r_id = resource_ids[j].r_id) => i = j

\* Two pairs with the same address and the same low 32 bits of the chain id
\* were encoded, one of them with a chain id above 32 bits, and the
\* ResourceId of the other was decoded.
C20_Witness ==
    \E i, j \in DOMAIN resource_ids :
        /\ i.addr = j.addr
        /\ i.chain_id.lo = j.chain_id.lo
        /\ i.chain_id.hi = 0
        /\ j.chain_id.hi # 0
        /\ resource_ids[i].r_id \in DOMAIN decoded

\* C21: the ResourceId of an address and a chain id below 2^32 is 32 bytes
\* long: 8 zero bytes, the 20 bytes of the address, and 4 bytes that hold the
\* chain id with the most significant byte first.
C21_ResourceIdLayout ==
    \A input \in DOMAIN resource_ids :
        input.chain_id.hi = 0
           => LET r_id == resource_ids[input].r_id
                  b == r_id[3].val
              IN /\ ~resource_ids[input].panicked
                 /\ BytesLen(r_id) = 32
                 /\ Len(r_id) = 3
                 /\ r_id[1] = [len |-> 8, val |-> 0]
                 /\ r_id[2] = [len |-> 20, val |-> input.addr]
                 /\ r_id[3].len = 4
                 /\ Len(b) = 4
                 /\ \A k \in 1..4 : b[k] \in 0..255
                 /\ ((b[1] * 256 + b[2]) * 256 + b[3]) * 256 + b[4] = input.chain_id.lo

\* encode_resource_id was given a chain id whose four bytes all differ
\* (0x01020304) and the chain id 4 of the repository's test.
C21_Witness ==
    /\ \E input \in DOMAIN resource_ids :
          /\ input.chain_id = [hi |-> 0, lo |-> 16909060]
          /\ resource_ids[input].r_id[3].val = <<1, 2, 3, 4>>
    /\ \E input \in DOMAIN resource_ids :
          /\ input.chain_id = [hi |-> 0, lo |-> 4]
          /\ resource_ids[input].r_id[3].val = <<0, 0, 0, 4>>

\* The queue keys of the proposals of the model, and the ones whose entries a
\* step adds or removes.
AllQueueKeys == {VoteKey(h) : h \in ChainHashes} \cup {ExecuteKey(h) : h \in ChainHashes}

QueueKeysChanged ==
    {k \in AllQueueKeys : ItemCount(queue', k) # ItemCount(queue, k)}

\* C22: both labels are 32 bytes long; the vote key of a hash is never the
\* execute key of any hash and two keys of one kind are equal only for equal
\* hashes; so create_proposal changes no entry but the Vote entry of its
\* proposal, execute_proposal none but the Execute entry of its proposal, and
\* remove_proposal none but the two entries of its proposal (a step that
\* changes no entry satisfies all three).
C22_QueueKeysDisjoint ==
    [][/\ Len(VoteLabel) = 32
       /\ Len(ExecuteLabel) = 32
       /\ \A h, g \in ChainHashes :
             /\ make_vote_proposal_key(h) # make_execute_proposal_key(g)
             /\ make_vote_proposal_key(h) = make_vote_proposal_key(g) => h = g
             /\ make_execute_proposal_key(h) = make_execute_proposal_key(g) => h = g
       /\ LET changed == QueueKeysChanged
          IN changed # {} =>
               /\ \A data \in ProposalData : \A out \in CreateOuts :
                     create_proposal(data, out)
                        => changed \subseteq
                              {VoteKey(ProposalEntityOf(data, DestChainId).data_hash)}
               /\ \A e \in events : \A out \in ExecuteOuts :
                     (IsPassed(e) /\ execute_proposal(e, out))
                        => changed \subseteq {ExecuteKey(e.data_hash)}
               /\ \A e \in events : \A out \in RemoveOuts :
                     (IsFinal(e) /\ remove_proposal(e, out))
                        => changed \subseteq
                              {VoteKey(e.data_hash), ExecuteKey(e.data_hash)}]_vars

\* The queue holds the Execute entry of one proposal and the Vote entry of
\* another, and the Vote entry of the first has been enqueued and taken out.
C22_Witness ==
    \E h, g \in ChainHashes :
        /\ h # g
        /\ has_item(queue, ExecuteKey(h))
        /\ ~has_item(queue, VoteKey(h))
        /\ voteIntents[h] >= 1
        /\ has_item(queue, VoteKey(g))

\* The indices stored for a resource.
LeafIndicesOf(key) == {l.index : l \in {x \in leaves : x.key = key}}

LeafKeys == {CacheDepositKey, SubstrateKey}

\* C23: the indices stored for a resource are at all times 0 .. k-1 for some
\* k, whatever events were handled, retried or replayed.
C23_LeafIndicesDense ==
    \A key \in LeafKeys :
        \A i \in LeafIndicesOf(key) : \A j \in 0..(i - 1) : j \in LeafIndicesOf(key)

\* C24: every leaf the Substrate watcher has stored is stored under its
\* position in the on-chain tree.
C24_SubstrateLeafAtChainIndex ==
    \A l \in leaves : l.key = SubstrateKey => l.commitment = Commitment(l.index)

\* C25: no step lowers the last deposit block of a resource.
C25_LastDepositBlockMonotone ==
    [][\A key \in DOMAIN last_deposit_block :
          /\ key \in DOMAIN last_deposit_block'
          /\ last_deposit_block'[key] >= last_deposit_block[key]]_vars

\* C26: handling an event that was handled before leaves the leaf table as
\* it is, and the table never holds one index twice or one leaf twice.
C26_LeafIndexingIdempotent ==
    [][/\ (scan.evm < scan.evm_hi /\ EvmLeafHandle) => leaves' = leaves
       /\ (scan.sub < scan.sub_hi /\ SubstrateLeafHandle) => leaves' = leaves
       /\ \A l, m \in leaves' :
             l.key = m.key => (l.index = m.index <=> l.commitment = m.commitment)]_vars

\* Two Transaction events were handled, a replay went back and they were
\* handled a second time; one block of the chain holds two events.
C26_Witness ==
    /\ scan.sub_redone
    /\ scan.sub = scan.sub_hi
    /\ scan.sub >= 2
    /\ \E i \in 1..(Len(subLog) - 1) : subLog[i].block_number = subLog[i + 1].block_number

\* C27: every scan of the deposit from a fresh store ends with the same
\* leaf table and the same Vote entries (keys and payloads), whenever it ran.
C27_ReplayDeterministic ==
    \A i, j \in 1..Len(runs) : runs[i] = runs[j]

\* C28: the blocks the watcher has fetched are at all times every block from
\* the contract's deployed_at up to the last one fetched: a first start
\* begins at deployed_at and a restart goes on where the last fetch ended.
C28_ResumeCoversEveryBlock ==
    \A c \in poll.covered : \A b \in DeployedAt..c : b \in poll.covered

\* C29: once the watcher has started, its scan position never goes back and
\* changes only in the step that completes the fetch of the range up to the
\* new position.
C29_ScanPositionMonotone ==
    [][poll.started
          => /\ poll'.block >= poll.block
             /\ poll'.block # poll.block
                   => /\ poll.pc = "fetch"
                      /\ poll'.pc = "loop"
                      /\ \A b \in (poll.block + 1)..poll'.block : b \in poll'.covered]_vars

\* C30: the ranges fetched since the last connect do not overlap, each
\* starts right after the one before, and none is fetched when there is no
\* new block.
C30_WindowsDoNotOverlap ==
    \A j \in 2..Len(poll.windows) :
        /\ poll.windows[j][1] = poll.windows[j - 1][2] + 1
        /\ poll.windows[j][1] <= poll.windows[j][2]

\* C31: a transient failure (connect, block-number query, log query) leaves
\* the watcher waiting for its next attempt however much backoff time has
\* elapsed; run has returned only if the endpoint URL did not parse, and then
\* with an error; run never returns success.
C31_TransientFailuresRetried ==
    /\ poll.err \in TransientErrs => (poll.pc = "down" /\ poll.returned = "none")
    /\ poll.pc = "stopped" <=> poll.returned = "Err"
    /\ poll.returned = "Err" => poll.err = "url_parse"
    /\ poll.returned # "Ok"

\* After MaxElapsed failed attempts the watcher is connected and has fetched a
\* window again.
C31_Witness ==
    /\ poll.elapsed = MaxElapsed
    /\ poll.pc = "loop"
    /\ poll.err = "none"
    /\ Len(poll.windows) >= 1

\* C32: a create_proposal whose calls all succeed but whose handler address
\* differs from the bridge's enqueues no Vote tx, stores no entity and does
\* not end the command task with a panic.
C32_HandlerMismatchIsError ==
    [][\A data \in ProposalData :
          (HandlerMismatch(data) /\ create_proposal(data, "ok"))
             => /\ queue' = queue
                /\ proposals' = proposals
                /\ Result(CreatePath(data, "ok")) # "panic"]_vars

\* The events of the claim: a ProposalEvent whose status is Inactive, Active
\* or no listed value, and every event that is not a ProposalEvent.
IsIgnoredEvent(e) ==
    IsProposalEvent(e) => ProposalStatusFrom(e.status) \in {Inactive, Active, Unknown}

DataModelInvariants ==
    /\ \A e \in DOMAIN queue : ItemCount(queue, SledQueueKey(e.chain_id, e.key)) <= 1
    /\ \A h \in ChainHashes :
          (voteIntents[h] > 0 /\ ProposalStatusFrom(onchain[h]) \notin {Executed, Cancelled})
             => h \in DOMAIN proposals

TaskStops(t) == shutdown.tasks[t] = "running" /\ shutdown'.tasks[t] = "stopped"

\* C34: the shutdown is broadcast at most once, and exactly once when main has
\* left its select!; a task stops only after a signal has fired; and the step
\* in which a task is dropped leaves a store that satisfied the data-model
\* invariants satisfying them.
C34_ShutdownDropsWorkSafely ==
    [][/\ shutdown'.broadcasts <= 1
       /\ shutdown'.main = "exited" => shutdown'.broadcasts = 1
       /\ \A t \in TaskNames :
             TaskStops(t)
                => /\ shutdown.signal # "none"
                   /\ DataModelInvariants => DataModelInvariants']_vars

\* The chains ignite has gone past, the enabled ones among them, and the
\* chains it has started.
ChainsBefore(n) == {c \in 1..Len(ignite.chains) : c < n}
EnabledBefore(n) == {c \in ChainsBefore(n) : ignite.chains[c].enabled}
StartedChains == {ignite.started[k].chain : k \in 1..Len(ignite.started)}

\* ignite has started exactly the enabled chains it has gone past, each once
\* and with every literal token of its eth1_endpoint replaced by the value of
\* the variable; it returns Ok only after the last chain, and an error only
\* at an enabled chain, after which no further chain is started.
StartedAreEnabled ==
    /\ StartedChains = EnabledBefore(ignite.i)
    /\ Len(ignite.started) = Cardinality(StartedChains)
    /\ \A k \in 1..Len(ignite.started) :
          LET cfg == ignite.chains[ignite.started[k].chain]
              url == ignite.started[k].eth1_endpoint
          IN /\ \A p \in 1..Len(url) : url[p] # Token
             /\ Len(url) = Len(cfg.eth1_endpoint)
             /\ \A p \in 1..Len(url) :
                   url[p] = IF cfg.eth1_endpoint[p] = Token
                               THEN ignite.env.val[1] ELSE cfg.eth1_endpoint[p]
    /\ ignite.result = "Ok" => ignite.i = Len(ignite.chains) + 1
    /\ ignite.result \in {"Err_env", "Err_start"}
          => /\ ignite.i <= Len(ignite.chains)
             /\ ignite.chains[ignite.i].enabled
    /\ ignite.result = "Err_env" => ~ignite.env.set

\* C35 as stated: ignite starts exactly the enabled chains with the token
\* replaced, and with the variable unset it returns the error.
C35_UnsetVariableIsError ==
    /\ StartedAreEnabled
    /\ (~ignite.env.set /\ ignite.result # "none") => ignite.result = "Err_env"

\* C35: ignite starts exactly the enabled chains with the token replaced;
\* with the variable unset it starts nothing, and it returns the error if a
\* chain is enabled and Ok if none is.
C35_IgniteStartsEnabledChains ==
    /\ StartedAreEnabled
    /\ (~ignite.env.set /\ ignite.result # "none")
          => /\ ignite.started = <<>>
             /\ ignite.result =
                   IF \E c \in 1..Len(ignite.chains) : ignite.chains[c].enabled
                       THEN "Err_env" ELSE "Ok"

\* ignite returned Ok after it passed over a disabled chain and started an
\* enabled one whose endpoint holds the token twice.
C35_Witness ==
    /\ ignite.result = "Ok"
    /\ Len(ignite.chains) = 2
    /\ ~ignite.chains[1].enabled
    /\ ignite.chains[2].enabled
    /\ ignite.chains[2].eth1_endpoint = <<"wss://", Token, "@host/", Token>>
    /\ Len(ignite.started) = 1

\* The data hashes of the create_proposal calls in flight.
InflightHashes == {ProposalEntityOf(c.data, DestChainId).data_hash : c \in inflight}

\* C36: once the Executed or Cancelled event of h has been handled and no
\* create_proposal call for h is in flight, the store holds no entity and no
\* Vote or Execute tx for h.
C36_NoOrphanAfterFinalEvent ==
    \A h \in ChainHashes :
        (/\ \E e \in handled : IsFinal(e) /\ e.data_hash = h
         /\ h \notin InflightHashes)
           => /\ h \notin DOMAIN proposals
              /\ ~has_item(queue, VoteKey(h))
              /\ ~has_item(queue, ExecuteKey(h))

\* C37: whenever a Passed event of a stored proposal can be handled, no run
\* of execute_proposal on it ends in the failed assertion: the status its
\* get_proposal returns is Passed or is filtered by the >= Executed check.
C37_ExecuteAssertionHolds ==
    \A e \in events :
        (IsPassed(e) /\ e.data_hash \in DOMAIN proposals)
           => /\ \A out \in ExecuteOuts : ExecutePath(e.data_hash, out) # "panic"
              /\ LET entity == proposals[e.data_hash]
                     status == ProposalStatusFrom(
                         get_proposal(entity.src_chain_id, entity.nonce, entity.data_hash))
                 IN status >= Executed \/ status = Passed

\* The Passed event of a stored proposal waits to be handled while the bridge
\* has moved the proposal on: it was cancelled or reports an unlisted status.
C37_Witness ==
    \E e \in events :
        /\ IsPassed(e)
        /\ e.data_hash \in DOMAIN proposals
        /\ onchain[e.data_hash] \in {Cancelled, UnlistedStatusByte}
        /\ \E out \in ExecuteOuts : ExecutePath(e.data_hash, out) = "skip_status"

\* The smart-update gate is off: smart updates are disabled or have no retries.
GateOff ==
    ~config.smart_anchor_updates \/ config.smart_anchor_updates_retries = 0

\* C39: with smart updates disabled, or enabled with zero retries, the
\* signaler never reads next_index of a destination, never sleeps and never
\* skips a destination: every configured linked anchor it has passed was
\* signaled with a call to its bridge, whatever next_index of the
\* destination is, and a run that returns Ok has passed them all.
C39_GateOffSignalsEveryAnchor ==
    GateOff =>
       /\ oracle.phase \notin {"check", "sleep"}
       /\ oracle.slept = 0
       /\ \A call \in SentCalls : call.slept = 0
       /\ \A i \in DOMAIN oracle.outcomes :
             IF config.linked_anchors[i] \in config.evm
                THEN /\ oracle.outcomes[i] = "signaled"
                     /\ \E call \in SentCalls :
                           /\ call.to = BridgeOf(config.linked_anchors[i])
                           /\ call.data.leaf_index = oracle.leaf_index
                ELSE oracle.outcomes[i] = "unconfigured"
       /\ (oracle.phase = "ok" /\ leaves # {})
             => Len(oracle.outcomes) = Len(config.linked_anchors)

\* With the gate off a deposit was handled to its Ok, and a destination that
\* was signaled is already past the leaf index of the deposit.
C39_Witness ==
    /\ GateOff
    /\ oracle.phase = "ok"
    /\ \E i \in DOMAIN oracle.outcomes :
          /\ oracle.outcomes[i] = "signaled"
          /\ oracle.leaf_index < saturating_sub(next_index[config.linked_anchors[i]], 1)

\* A Deposit event has been given to the handler.
DepositBegun ==
    /\ oracle.phase # "idle"
    /\ ~(oracle.phase = "ok" /\ leaves = {})

\* The destination bridge of linked anchor i was called for the deposit.
SignaledAnchor(i) ==
    \E call \in SentCalls :
        /\ call.to = BridgeOf(config.linked_anchors[i])
        /\ call.data.leaf_index = 1

SkippedAnchor(i) ==
    i \in DOMAIN oracle.outcomes /\ oracle.outcomes[i] = "skipped"

\* C38: when the RPC failures are transient and the watcher repeats the
\* failed call, every linked anchor with a configured chain is eventually
\* signaled for a deposit given to the handler, or skipped by the
\* smart-update gate, also when the call failed at an earlier linked anchor.
C38_EveryAnchorEventuallySignaled ==
    \A i \in 1..2 :
        (DepositBegun /\ config.linked_anchors[i] \in config.evm)
           ~> (SignaledAnchor(i) \/ SkippedAnchor(i))

\* A call of the handler failed, the call was repeated and returned Ok, and
\* the last linked anchor was signaled.
C38_Witness ==
    /\ oracle.failures >= 1
    /\ oracle.phase = "ok"
    /\ Len(oracle.outcomes) = 2
    /\ oracle.outcomes[2] = "signaled"
    /\ SignaledAnchor(2)

\* C40: once an Error response has been sent on the command stream no other
\* response follows it; a transaction that is finalized with a failed
\* extrinsic is answered with Error and not with Withdraw(Finalized).
C40_ErrorIsLastResponse ==
    \A i \in 1..Len(relay.responses) :
        relay.responses[i] = "Error" => i = Len(relay.responses)

====
